---- MODULE Spec2Model ----
(***************************************************************************)
(* Model of the structural analysis core of nqm: validateModel             *)
(* (utils/validate.ts) and solveFem (utils/fem.ts).                        *)
(*                                                                         *)
(* A snapshot (FemInput) is a record of lists.  Ids are small integers.    *)
(* shared holds the module-level bindings of fem.ts, isStale is the flag   *)
(* of the useFem hook and supportsState the list of the useSupports hook.  *)
(* Coordinates are integers counting half units (k stands for k/2), so     *)
(* that Math.round is not the identity on them.  The solved displacement   *)
(* vector is a vector of classes of floating point values.                 *)
(***************************************************************************)
EXTENDS Integers, Sequences, FiniteSets, TLC

VARIABLES input, validation, femResult, run, shared, isStale, supportsState

vars == <<input, validation, femResult, run, shared, isStale, supportsState>>

(***************************************************************************)
(* Bounds of the snapshots that are explored.                              *)
(***************************************************************************)
MaxNodes        == 2
MaxMembers      == 2
MaxSupports     == 2
MaxLoads        == 1
MaxJoints       == 1
MaxGraphMembers == 3

\* null, and a value that is present
Null == <<>>
Some(x) == <<x>>
IsNull(o) == Len(o) = 0
Val(o) == o[1]

(***************************************************************************)
(* Generic helpers on sequences.                                           *)
(***************************************************************************)
Range(s) == { s[i] : i \in DOMAIN s }

SeqsUpTo(S, n) == UNION { [1..k -> S] : k \in 0..n }

\* Array.prototype.map on a list of records, keeping the id field
Ids(s) == [i \in DOMAIN s |-> s[i].id]

(***************************************************************************)
(* Template literals and join                                              *)
(***************************************************************************)
Digit == <<"0", "1", "2", "3", "4", "5", "6", "7", "8", "9">>

\* `${n}`: the decimal digits of a non-negative integer
RECURSIVE NumStr(_)
NumStr(n) ==
  IF n < 10 THEN <<Digit[n + 1]>> ELSE NumStr(n \div 10) \o <<Digit[(n % 10) + 1]>>

\* Array.prototype.join("\n") on a list of token sequences
RECURSIVE JoinNL(_)
JoinNL(msgs) ==
  IF Len(msgs) = 0 THEN <<>>
  ELSE IF Len(msgs) = 1 THEN msgs[1]
  ELSE msgs[1] \o <<"\n">> \o JoinNL(Tail(msgs))

(***************************************************************************)
(* Numbers of the snapshot                                                 *)
(***************************************************************************)
\* Math.round of k/2: halves round towards +infinity
Round(k) == (k + 1) \div 2

\* dx*dx + dy*dy in quarter units
LenSq(a, b) == (b.x - a.x) * (b.x - a.x) + (b.y - a.y) * (b.y - a.y)

\* Math.sqrt(dx*dx + dy*dy) < 1e-6: on the half-unit grid the shortest
\* non-zero length is 0.5
BelowValidateTol(a, b) == LenSq(a, b) = 0

\* L < 1e-10 on the half-unit grid
BelowSolveTol(a, b) == LenSq(a, b) = 0

(***************************************************************************)
(* validateModel                                                           *)
(***************************************************************************)
Issue(level, code, message, ids) ==
  [level |-> level, code |-> code, message |-> message, ids |-> ids]

\* new Set(members.flatMap(m => [m.a, m.b])), in insertion order
RECURSIVE UsedNodeSeq(_, _, _)
UsedNodeSeq(members, i, acc) ==
  IF i > Len(members) THEN acc
  ELSE LET m  == members[i]
           a1 == IF m.a \in Range(acc) THEN acc ELSE Append(acc, m.a)
           a2 == IF m.b \in Range(a1) THEN a1 ELSE Append(a1, m.b)
       IN UsedNodeSeq(members, i + 1, a2)

\* find(x) with path compression: the root and the parent map afterwards
RECURSIVE Find(_, _)
Find(parent, x) ==
  IF parent[x] = x THEN [root |-> x, parent |-> parent]
  ELSE LET r == Find(parent, parent[x])
       IN [root |-> r.root, parent |-> [r.parent EXCEPT ![x] = r.root]]

\* union(x, y) written as parent.set(x, find(y)): x is re-parented, not its root
UnionNoFind(parent, x, y) ==
  LET fy == Find(parent, y)
  IN [fy.parent EXCEPT ![x] = fy.root]

\* union(x, y): parent.set(find(x), find(y))
Union(parent, x, y) ==
  LET fx == Find(parent, x)
      fy == Find(fx.parent, y)
  IN [fy.parent EXCEPT ![fx.root] = fy.root]

\* members.forEach(m => union(m.a, m.b))
RECURSIVE UnionAll(_, _, _)
UnionAll(parent, members, i) ==
  IF i > Len(members) THEN parent
  ELSE UnionAll(Union(parent, members[i].a, members[i].b), members, i + 1)

\* roots = new Set(usedNodes.map(find))
Roots(members) ==
  LET used   == UsedNodeSeq(members, 1, <<>>)
      parent == UnionAll([id \in Range(used) |-> id], members, 1)
  IN { Find(parent, id).root : id \in Range(used) }

ConstraintsOf(type) ==
  IF type = "pin" THEN 2
  ELSE IF type = "roller" THEN 1
  ELSE IF type = "fix" THEN 3
  ELSE 0

\* supports.reduce(...)
RECURSIVE TotalConstraints(_, _)
TotalConstraints(supports, i) ==
  IF i > Len(supports) THEN 0
  ELSE ConstraintsOf(supports[i].type) + TotalConstraints(supports, i + 1)

\* the scan of check 9: ids of the nodes whose rounded coordinate was seen
RECURSIVE DupNodes(_, _, _, _)
DupNodes(nodes, i, coordSet, dup) ==
  IF i > Len(nodes) THEN dup
  ELSE LET key == <<Round(nodes[i].x), Round(nodes[i].y)>>
       IN IF key \in coordSet
          THEN DupNodes(nodes, i + 1, coordSet, Append(dup, nodes[i].id))
          ELSE DupNodes(nodes, i + 1, coordSet \cup {key}, dup)

\* new Map(nodes.map(n => [n.id, n])): the last node of an id wins
HasNode(nodes, id) == \E i \in DOMAIN nodes : nodes[i].id = id

NodeOf(nodes, id) ==
  nodes[CHOOSE i \in DOMAIN nodes :
          /\ nodes[i].id = id
          /\ \A j \in DOMAIN nodes : nodes[j].id = id => j <= i]

IsZeroMember(nodes, m) ==
  /\ HasNode(nodes, m.a)
  /\ HasNode(nodes, m.b)
  /\ BelowValidateTol(NodeOf(nodes, m.a), NodeOf(nodes, m.b))

NoMembersIssue == Issue("error", "NO_MEMBERS", <<"NO_MEMBERS">>, <<>>)

Check2(in, usedNodeIds) ==
  LET isolatedNodes == SelectSeq(in.nodes, LAMBDA n : n.id \notin usedNodeIds)
  IN IF Len(isolatedNodes) > 0
     THEN <<Issue("error", "ISOLATED_NODES",
                  <<"ISOLATED_NODES">> \o NumStr(Len(isolatedNodes)),
                  Ids(isolatedNodes))>>
     ELSE <<>>

Check3(in, usedNodeIds) ==
  IF Cardinality(usedNodeIds) > 0
  THEN LET roots == Roots(in.members)
       IN IF Cardinality(roots) > 1
          THEN <<Issue("error", "DISCONNECTED_STRUCTURE",
                       <<"DISCONNECTED_STRUCTURE">> \o NumStr(Cardinality(roots)),
                       <<>>)>>
          ELSE <<>>
  ELSE <<>>

Check5(in, usedNodeIds) ==
  LET disconnectedSupports ==
        SelectSeq(in.supports, LAMBDA s : s.nodeId \notin usedNodeIds)
  IN IF Len(disconnectedSupports) > 0
     THEN <<Issue("error", "SUPPORT_NOT_ON_MEMBER",
                  <<"SUPPORT_NOT_ON_MEMBER">> \o NumStr(Len(disconnectedSupports)),
                  Ids(disconnectedSupports))>>
     ELSE <<>>

\* check 6 with the threshold written as totalConstraints <= 3
Check6Inclusive(in) ==
  IF TotalConstraints(in.supports, 1) <= 3
  THEN <<Issue("error", "INSUFFICIENT_CONSTRAINTS",
               <<"INSUFFICIENT_CONSTRAINTS">>, <<>>)>>
  ELSE <<>>

Check6(in) ==
  IF TotalConstraints(in.supports, 1) < 3
  THEN <<Issue("error", "INSUFFICIENT_CONSTRAINTS",
               <<"INSUFFICIENT_CONSTRAINTS">>, <<>>)>>
  ELSE <<>>

\* checks 4, 5 and 6 as an if / else-if chain: 6 runs only when 5 found nothing
Check456Chain(in, usedNodeIds) ==
  IF Len(in.supports) = 0
  THEN <<Issue("error", "NO_SUPPORTS", <<"NO_SUPPORTS">>, <<>>)>>
  ELSE IF Len(Check5(in, usedNodeIds)) > 0 THEN Check5(in, usedNodeIds)
  ELSE Check6(in)

\* checks 4, 5 and 6: 5 and 6 are in the else branch of 4
Check456(in, usedNodeIds) ==
  IF Len(in.supports) = 0
  THEN <<Issue("error", "NO_SUPPORTS", <<"NO_SUPPORTS">>, <<>>)>>
  ELSE Check5(in, usedNodeIds) \o Check6(in)

\* check 7 with the moment loads counted as loads
Check7Moments(in) ==
  LET hasLoad == Len(in.pointLoads) > 0 \/ Len(in.distLoads) > 0
                 \/ Len(in.momentLoads) > 0
  IN IF ~hasLoad
     THEN <<Issue("warning", "NO_LOADS", <<"NO_LOADS">>, <<>>)>>
     ELSE <<>>

Check7(in) ==
  LET hasLoad == Len(in.pointLoads) > 0 \/ Len(in.distLoads) > 0
  IN IF ~hasLoad
     THEN <<Issue("warning", "NO_LOADS", <<"NO_LOADS">>, <<>>)>>
     ELSE <<>>

Check8(in) ==
  LET zeroLoads == SelectSeq(in.pointLoads, LAMBDA l : l.magnitude = 0)
                   \o SelectSeq(in.distLoads, LAMBDA l : l.magnitude = 0)
  IN IF Len(zeroLoads) > 0
     THEN <<Issue("warning", "ZERO_MAGNITUDE_LOAD",
                  <<"ZERO_MAGNITUDE_LOAD">> \o NumStr(Len(zeroLoads)),
                  Ids(zeroLoads))>>
     ELSE <<>>

Check9(in) ==
  LET dupNodes == DupNodes(in.nodes, 1, {}, <<>>)
  IN IF Len(dupNodes) > 0
     THEN <<Issue("warning", "DUPLICATE_NODES",
                  <<"DUPLICATE_NODES">> \o NumStr(Len(dupNodes)), dupNodes)>>
     ELSE <<>>

Check10(in) ==
  LET zeroMembers == SelectSeq(in.members, LAMBDA m : IsZeroMember(in.nodes, m))
  IN IF Len(zeroMembers) > 0
     THEN <<Issue("error", "ZERO_LENGTH_MEMBER",
                  <<"ZERO_LENGTH_MEMBER">> \o NumStr(Len(zeroMembers)),
                  Ids(zeroMembers))>>
     ELSE <<>>

\* the filter written as "any issue"
IsIssue(i) == i.level \in {"error", "warning"}

\* i => i.level === "error"
IsError(i) == i.level = "error"

\* validateModel without the early return of check 1
validateModelNoReturn(in) ==
  LET usedNodeIds == Range(UsedNodeSeq(in.members, 1, <<>>))
      issues == (IF Len(in.members) = 0 THEN <<NoMembersIssue>> ELSE <<>>)
                \o Check2(in, usedNodeIds) \o Check3(in, usedNodeIds)
                \o Check456(in, usedNodeIds)
                \o Check7(in) \o Check8(in) \o Check9(in) \o Check10(in)
  IN [ok |-> Len(SelectSeq(issues, IsError)) = 0, issues |-> issues]

validateModel(in) ==
  IF Len(in.members) = 0
  THEN [ok |-> FALSE, issues |-> <<NoMembersIssue>>]
  ELSE LET usedNodeIds == Range(UsedNodeSeq(in.members, 1, <<>>))
           issues == Check2(in, usedNodeIds) \o Check3(in, usedNodeIds)
                     \o Check456(in, usedNodeIds)
                     \o Check7(in) \o Check8(in) \o Check9(in) \o Check10(in)
       IN [ok |-> Len(SelectSeq(issues, IsError)) = 0, issues |-> issues]

(***************************************************************************)
(* Snapshots                                                               *)
(***************************************************************************)
\* the grid points nodes are placed on (half units): (0,0), (0.5,0), (1,0)
Points == { <<0, 0>>, <<1, 0>>, <<2, 0>> }

SupportTypes == {"pin", "roller", "fix"}

Magnitudes == {0, 1}

\* the ids a reference can name; node i of a list has id i
RefIds == {1, 2, 3}

GraphIds == {1, 2, 3, 4}

NodeAt(i, p) == [id |-> i, x |-> p[1], y |-> p[2]]

NodeLists ==
  { [i \in DOMAIN ps |-> NodeAt(i, ps[i])] : ps \in SeqsUpTo(Points, MaxNodes) }

\* a member list over the given endpoint pairs; member i has id i
MemberLists(pairs, n) ==
  { [i \in DOMAIN es |-> [id |-> i, a |-> es[i][1], b |-> es[i][2]]] :
      es \in SeqsUpTo(pairs, n) }

Support(id, nodeId, type) == [id |-> id, nodeId |-> nodeId, type |-> type, angleDeg |-> 0]

SupportLists ==
  { [i \in DOMAIN ss |-> Support(i, ss[i][1], ss[i][2])] :
      ss \in SeqsUpTo(RefIds \X SupportTypes, MaxSupports) }

JointLists ==
  { [i \in DOMAIN js |-> [id |-> i, nodeId |-> js[i]]] :
      js \in SeqsUpTo(RefIds, MaxJoints) }

\* point loads on node 2 or on node 3
PointLoadLists ==
  { [i \in DOMAIN ls |-> [id |-> i, nodeId |-> ls[i][1], angleDeg |-> 0,
                          magnitude |-> ls[i][2]]] :
      ls \in SeqsUpTo({2, 3} \X Magnitudes, MaxLoads) }

\* distributed loads on member 1 or on member 2; their ids continue after the
\* point loads'
DistLoadLists ==
  { [i \in DOMAIN ls |-> [id |-> MaxLoads + i, memberId |-> ls[i][1], angleDeg |-> 0,
                          magnitude |-> ls[i][2]]] :
      ls \in SeqsUpTo({1, 2} \X Magnitudes, MaxLoads) }

\* no moment load, or one on node 2
MomentLoadLists ==
  { <<>>, <<[id |-> 0, nodeId |-> 2, clockwise |-> TRUE, magnitude |-> 1]>> }

Snapshot(nodes, members, supports, joints, pointLoads, distLoads, momentLoads) ==
  [nodes |-> nodes, members |-> members, supports |-> supports, joints |-> joints,
   pointLoads |-> pointLoads, distLoads |-> distLoads, momentLoads |-> momentLoads]

\* a two-node beam: nodes at (0,0) and (1,0), one member between them
BeamNodes == <<NodeAt(1, <<0, 0>>), NodeAt(2, <<2, 0>>)>>
BeamMembers == <<[id |-> 1, a |-> 1, b |-> 2]>>

\* four nodes, all on different rounded coordinates
GraphNodes ==
  <<NodeAt(1, <<0, 0>>), NodeAt(2, <<2, 0>>), NodeAt(3, <<0, 2>>), NodeAt(4, <<2, 2>>)>>

\* the four nodes under every list of members between different nodes, in
\* every order and direction, without supports
GraphSnapshot(in) ==
  \E ms \in MemberLists({p \in GraphIds \X GraphIds : p[1] # p[2]}, MaxGraphMembers) :
    in = Snapshot(GraphNodes, ms, <<>>, <<>>, <<>>, <<>>, <<>>)

\* every node list under every member list (self loops and ids without a node
\* included), with no support, a fix on node 1 or a roller on node 2
FrameSnapshot(in) ==
  \E ns \in NodeLists :
    \E ms \in MemberLists({p \in RefIds \X RefIds : p[1] <= p[2]}, MaxMembers) :
      \E ss \in {<<>>, <<Support(1, 1, "fix")>>, <<Support(1, 2, "roller")>>} :
        in = Snapshot(ns, ms, ss, <<>>, <<>>, <<>>, <<>>)

\* the beam under every support list, with and without a moment load
SupportSnapshot(in) ==
  \E ss \in SupportLists :
    \E mls \in MomentLoadLists :
      in = Snapshot(BeamNodes, BeamMembers, ss, <<>>, <<>>, <<>>, mls)

\* the two nodes fixed at node 1, with or without the member, under joints and loads
LoadSnapshot(in) ==
  \E ms \in {<<>>, BeamMembers} :
    \E js \in JointLists :
      \E pls \in PointLoadLists :
        \E dls \in DistLoadLists :
          in = Snapshot(BeamNodes, ms, <<Support(1, 1, "fix")>>, js, pls, dls, <<>>)

(***************************************************************************)
(* Degrees of freedom                                                      *)
(***************************************************************************)
EmptyMap == [x \in {} |-> 0]

\* Map.prototype.set
Put(f, k, v) == [x \in (DOMAIN f) \cup {k} |-> IF x = k THEN v ELSE f[x]]

\* new Set(joints.map(j => j.nodeId))
JointNodeIds(joints) == { joints[i].nodeId : i \in DOMAIN joints }

RECURSIVE NodeDofs(_, _, _, _, _)
NodeDofs(nodes, jointNodeIds, i, nodeDof, idx) ==
  IF i > Len(nodes) THEN [nodeDof |-> nodeDof, idx |-> idx]
  ELSE IF nodes[i].id \in jointNodeIds
       THEN NodeDofs(nodes, jointNodeIds, i + 1,
                     Put(nodeDof, nodes[i].id, <<idx, idx + 1, -1>>), idx + 2)
       ELSE NodeDofs(nodes, jointNodeIds, i + 1,
                     Put(nodeDof, nodes[i].id, <<idx, idx + 1, idx + 2>>), idx + 3)

RECURSIVE HingeDofs(_, _, _, _, _)
HingeDofs(members, jointNodeIds, i, hingeDof, idx) ==
  IF i > Len(members) THEN [hingeDof |-> hingeDof, idx |-> idx]
  ELSE LET m  == members[i]
           h1 == IF m.a \in jointNodeIds THEN Put(hingeDof, <<m.id, m.a>>, idx)
                 ELSE hingeDof
           i1 == IF m.a \in jointNodeIds THEN idx + 1 ELSE idx
           h2 == IF m.b \in jointNodeIds THEN Put(h1, <<m.id, m.b>>, i1) ELSE h1
           i2 == IF m.b \in jointNodeIds THEN i1 + 1 ELSE i1
       IN HingeDofs(members, jointNodeIds, i + 1, h2, i2)

\* the map with one index left out between the nodes' and the hinges'
buildDofMapGap(nodes, members, joints) ==
  LET jointNodeIds == JointNodeIds(joints)
      nd == NodeDofs(nodes, jointNodeIds, 1, EmptyMap, 0)
      hd == HingeDofs(members, jointNodeIds, 1, EmptyMap, nd.idx + 1)
  IN [nodeDof |-> nd.nodeDof, hingeDof |-> hd.hingeDof, totalDof |-> hd.idx]

buildDofMap(nodes, members, joints) ==
  LET jointNodeIds == JointNodeIds(joints)
      nd == NodeDofs(nodes, jointNodeIds, 1, EmptyMap, 0)
      hd == HingeDofs(members, jointNodeIds, 1, EmptyMap, nd.idx)
  IN [nodeDof |-> nd.nodeDof, hingeDof |-> hd.hingeDof, totalDof |-> hd.idx]

\* the lookup that returns the node's own entry for every node
getRotDofOfNode(memberId, nodeId, dofMap, jointNodeIds) ==
  dofMap.nodeDof[nodeId][3]

getRotDof(memberId, nodeId, dofMap, jointNodeIds) ==
  IF nodeId \in jointNodeIds
  THEN dofMap.hingeDof[<<memberId, nodeId>>]
  ELSE dofMap.nodeDof[nodeId][3]

NoDofMap == [nodeDof |-> EmptyMap, hingeDof |-> EmptyMap, totalDof |-> 0]

(***************************************************************************)
(* Assembly                                                                *)
(***************************************************************************)
\* The member loop of solveFem.  nodeMap.get(id)! is undefined for an id that
\* is not in the node list, and reading .x of it throws a TypeError.
RECURSIVE AssembleMembers(_, _, _, _)
AssembleMembers(in, dofMap, i, assembled) ==
  IF i > Len(in.members) THEN [thrown |-> FALSE, assembled |-> assembled]
  ELSE LET m == in.members[i]
       IN IF ~HasNode(in.nodes, m.a) \/ ~HasNode(in.nodes, m.b)
          THEN [thrown |-> TRUE, assembled |-> assembled]
          ELSE IF BelowSolveTol(NodeOf(in.nodes, m.a), NodeOf(in.nodes, m.b))
          THEN AssembleMembers(in, dofMap, i + 1, assembled)
          ELSE LET jointNodeIds == JointNodeIds(in.joints)
                   tAIdx == getRotDof(m.id, m.a, dofMap, jointNodeIds)
                   tBIdx == getRotDof(m.id, m.b, dofMap, jointNodeIds)
                   dA == dofMap.nodeDof[m.a]
                   dB == dofMap.nodeDof[m.b]
               IN AssembleMembers(in, dofMap, i + 1,
                    Append(assembled,
                           [memberId |-> m.id,
                            dofs |-> <<dA[1], dA[2], tAIdx, dB[1], dB[2], tBIdx>>]))

\* applyPointLoad for every point load: the loads that reach F, in order
AppliedPointLoads(pointLoads, dofMap) ==
  Ids(SelectSeq(pointLoads, LAMBDA pl : pl.nodeId \in DOMAIN dofMap.nodeDof))

IndexOfGroup(groups, mid) ==
  IF \E k \in DOMAIN groups : groups[k].mid = mid
  THEN CHOOSE k \in DOMAIN groups : groups[k].mid = mid
  ELSE 0

\* The grouping loop written as a drain of the input list
\* (while ((dl = distLoads.shift()) !== undefined) ...): each round removes
\* the load it groups from the caller's list.
GroupStepShift(heap, dl) ==
  LET k == IndexOfGroup(heap.groups, dl.memberId)
  IN IF k = 0
     THEN [groups |-> Append(heap.groups, [mid |-> dl.memberId, dls |-> <<dl>>]),
           source |-> Tail(heap.source)]
     ELSE [groups |-> [heap.groups EXCEPT ![k].dls = Append(@, dl)],
           source |-> Tail(heap.source)]

\* One round of the grouping loop on the heap {distLoadsByMember, input.distLoads}:
\* arr is the group's own array or a fresh one, and arr.push(dl) writes to it alone.
GroupStep(heap, dl) ==
  LET k == IndexOfGroup(heap.groups, dl.memberId)
  IN IF k = 0
     THEN [groups |-> Append(heap.groups, [mid |-> dl.memberId, dls |-> <<dl>>]),
           source |-> heap.source]
     ELSE [groups |-> [heap.groups EXCEPT ![k].dls = Append(@, dl)],
           source |-> heap.source]

RECURSIVE GroupDistLoads(_, _, _)
GroupDistLoads(distLoads, i, heap) ==
  IF i > Len(distLoads) THEN heap
  ELSE GroupDistLoads(distLoads, i + 1, GroupStep(heap, distLoads[i]))

\* distLoadsByMember, and the input list after the loop
distLoadsByMember(distLoads) ==
  GroupDistLoads(distLoads, 1, [groups |-> <<>>, source |-> distLoads])

\* members.find(m => m.id === mid)
HasMember(members, mid) == \E i \in DOMAIN members : members[i].id = mid

\* the distributed loads that reach F, in order: group by group, skipping the
\* groups whose member id is unknown
RECURSIVE AppliedDistLoads(_, _, _)
AppliedDistLoads(groups, members, k) ==
  IF k > Len(groups) THEN <<>>
  ELSE (IF HasMember(members, groups[k].mid) THEN Ids(groups[k].dls) ELSE <<>>)
       \o AppliedDistLoads(groups, members, k + 1)

(***************************************************************************)
(* Boundary conditions: the additions to K, in order                       *)
(***************************************************************************)
Add(i, j, term) == [row |-> i, col |-> j, term |-> term]

\* the hinge unknown of the first member end at the node only
HingePenaltiesFirstEnd(members, nodeId, dofMap, i) ==
  LET keys == { k \in DOMAIN dofMap.hingeDof : k[2] = nodeId }
  IN IF keys = {} THEN <<>>
     ELSE LET hd == dofMap.hingeDof[CHOOSE k \in keys :
                                      \A l \in keys : dofMap.hingeDof[k] <= dofMap.hingeDof[l]]
          IN <<Add(hd, hd, "PENALTY")>>

\* the hinge unknowns of the member ends at a node, member by member
RECURSIVE HingePenalties(_, _, _, _)
HingePenalties(members, nodeId, dofMap, i) ==
  IF i > Len(members) THEN <<>>
  ELSE LET m  == members[i]
           pa == IF m.a = nodeId /\ <<m.id, m.a>> \in DOMAIN dofMap.hingeDof
                 THEN <<Add(dofMap.hingeDof[<<m.id, m.a>>],
                            dofMap.hingeDof[<<m.id, m.a>>], "PENALTY")>>
                 ELSE <<>>
           pb == IF m.b = nodeId /\ <<m.id, m.b>> \in DOMAIN dofMap.hingeDof
                 THEN <<Add(dofMap.hingeDof[<<m.id, m.b>>],
                            dofMap.hingeDof[<<m.id, m.b>>], "PENALTY")>>
                 ELSE <<>>
       IN pa \o pb \o HingePenalties(members, nodeId, dofMap, i + 1)

\* every support taken as one that holds ux, uy and the node's rotation
SupportPenaltiesClamped(sup, dofMap, members, jointNodeIds) ==
  IF sup.nodeId \notin DOMAIN dofMap.nodeDof THEN <<>>
  ELSE LET dofs == dofMap.nodeDof[sup.nodeId]
       IN <<Add(dofs[1], dofs[1], "PENALTY"), Add(dofs[2], dofs[2], "PENALTY")>>
          \o (IF dofs[3] # -1 THEN <<Add(dofs[3], dofs[3], "PENALTY")>> ELSE <<>>)

SupportPenalties(sup, dofMap, members, jointNodeIds) ==
  IF sup.nodeId \notin DOMAIN dofMap.nodeDof THEN <<>>
  ELSE LET dofs == dofMap.nodeDof[sup.nodeId]
           ux == dofs[1]
           uy == dofs[2]
           rotOrMinus == dofs[3]
       IN IF sup.type = "fix"
          THEN <<Add(ux, ux, "PENALTY"), Add(uy, uy, "PENALTY")>>
               \o (IF rotOrMinus # -1
                   THEN <<Add(rotOrMinus, rotOrMinus, "PENALTY")>> ELSE <<>>)
               \o (IF sup.nodeId \in jointNodeIds
                   THEN HingePenalties(members, sup.nodeId, dofMap, 1) ELSE <<>>)
          ELSE IF sup.type = "pin"
          THEN <<Add(ux, ux, "PENALTY"), Add(uy, uy, "PENALTY")>>
          ELSE IF sup.type = "roller"
          THEN <<Add(ux, ux, "PENALTY*nx*nx"), Add(ux, uy, "PENALTY*nx*ny"),
                 Add(uy, ux, "PENALTY*ny*nx"), Add(uy, uy, "PENALTY*ny*ny")>>
          ELSE <<>>

RECURSIVE applyBoundaryConditions(_, _, _, _, _)
applyBoundaryConditions(supports, dofMap, members, jointNodeIds, i) ==
  IF i > Len(supports) THEN <<>>
  ELSE SupportPenalties(supports[i], dofMap, members, jointNodeIds)
       \o applyBoundaryConditions(supports, dofMap, members, jointNodeIds, i + 1)

(***************************************************************************)
(* The linear solve.  ml-matrix either throws or returns a vector; a       *)
(* component is one of: |v| <= 1e10 ("small"), v > 1e10 ("big"),           *)
(* v < -1e10 ("nbig"), Infinity, -Infinity, NaN.                           *)
(***************************************************************************)
NumClasses == {"small", "big", "nbig", "inf", "ninf", "nan"}

\* Math.abs
Abs(c) == IF c = "nbig" THEN "big" ELSE IF c = "ninf" THEN "inf" ELSE c

Rank(c) ==
  CASE c = "ninf" -> 0 [] c = "nbig" -> 1 [] c = "small" -> 2
    [] c = "big" -> 3 [] c = "inf" -> 4 [] OTHER -> 5

\* Math.max of two values: NaN if either is NaN
Max2(a, b) ==
  IF a = "nan" \/ b = "nan" THEN "nan" ELSE IF Rank(a) >= Rank(b) THEN a ELSE b

\* Math.max(...dispArray) without the map(Math.abs)
RECURSIVE MaxNoAbs(_, _, _)
MaxNoAbs(dispArray, N, i) ==
  IF i >= N THEN "ninf" ELSE Max2(dispArray[i], MaxNoAbs(dispArray, N, i + 1))

\* Math.max(...dispArray.map(Math.abs)); Math.max() is -Infinity
RECURSIVE MaxAbs(_, _, _)
MaxAbs(dispArray, N, i) ==
  IF i >= N THEN "ninf" ELSE Max2(Abs(dispArray[i]), MaxAbs(dispArray, N, i + 1))

isFinite(c) == c \notin {"inf", "ninf", "nan"}

\* maxDisp > 1e10
AboveLimit(c) == c \in {"big", "inf"}

\* what solve(K, F) can do for a system of N unknowns: throw, or return a
\* vector with one component of any class among small ones
SolvePicks ==
  { p \in [threw : BOOLEAN, last : BOOLEAN, c : NumClasses] :
      p.threw => (~p.last /\ p.c = "small") }

solve(N, pick) ==
  IF pick.threw THEN [threw |-> TRUE, x |-> EmptyMap]
  ELSE [threw |-> FALSE,
        x |-> [i \in 0..(N - 1) |->
                 IF i = (IF pick.last THEN N - 1 ELSE 0) THEN pick.c ELSE "small"]]

(***************************************************************************)
(* Post-processing                                                         *)
(***************************************************************************)
SAMPLES == 11

\* one ElementResult per member that is not skipped
RECURSIVE ElementResults(_, _)
ElementResults(in, i) ==
  IF i > Len(in.members) THEN <<>>
  ELSE LET m == in.members[i]
       IN (IF BelowSolveTol(NodeOf(in.nodes, m.a), NodeOf(in.nodes, m.b))
           THEN <<>>
           ELSE <<[memberId |-> m.id, points |-> SAMPLES]>>)
          \o ElementResults(in, i + 1)

Computed(dof) == [kind |-> "reactionAtDof", dof |-> dof]
Zero == [kind |-> "zero", dof |-> -1]

\* the reactions with the moment computed for every fix support, the sentinel
\* -1 of a hinge node not looked at
RECURSIVE ReactionsAnyFix(_, _, _)
ReactionsAnyFix(supports, dofMap, i) ==
  IF i > Len(supports) THEN <<>>
  ELSE LET sup == supports[i]
       IN (IF sup.nodeId \notin DOMAIN dofMap.nodeDof THEN <<>>
           ELSE LET dofs == dofMap.nodeDof[sup.nodeId]
                IN <<[supportId |-> sup.id, nodeId |-> sup.nodeId,
                      fx |-> Computed(dofs[1]), fy |-> Computed(dofs[2]),
                      m |-> IF sup.type = "fix" THEN Computed(dofs[3]) ELSE Zero]>>)
          \o ReactionsAnyFix(supports, dofMap, i + 1)

\* one ReactionResult per support whose node has unknowns
RECURSIVE Reactions(_, _, _)
Reactions(supports, dofMap, i) ==
  IF i > Len(supports) THEN <<>>
  ELSE LET sup == supports[i]
       IN (IF sup.nodeId \notin DOMAIN dofMap.nodeDof THEN <<>>
           ELSE LET dofs == dofMap.nodeDof[sup.nodeId]
                IN <<[supportId |-> sup.id, nodeId |-> sup.nodeId,
                      fx |-> Computed(dofs[1]), fy |-> Computed(dofs[2]),
                      m |-> IF sup.type = "fix" /\ dofs[3] # -1
                            THEN Computed(dofs[3]) ELSE Zero]>>)
          \o Reactions(supports, dofMap, i + 1)

\* nodes.map(n => ...)
Displacements(nodes, dofMap, dispArray) ==
  [i \in DOMAIN nodes |->
     LET d == dofMap.nodeDof[nodes[i].id]
     IN [nodeId |-> nodes[i].id, ux |-> dispArray[d[1]], uy |-> dispArray[d[2]],
         rot |-> IF d[3] # -1 THEN dispArray[d[3]] ELSE "zero"]]

(***************************************************************************)
(* solveFem: the value it returns (none when it throws), what the call     *)
(* built on the way, and the snapshot after the call                       *)
(***************************************************************************)
Failure(reason, message) == [ok |-> FALSE, reason |-> reason, message |-> message]

\* issues.map(i => i.message), without the filter
AllMessages(issues) == [i \in DOMAIN issues |-> issues[i].message]

\* issues.filter(i => i.level === "error").map(i => i.message)
ErrorMessages(issues) ==
  LET errs == SelectSeq(issues, IsError) IN [i \in DOMAIN errs |-> errs[i].message]

\* a refusal whose reason is taken from the first issue
RefusalByCode(v) ==
  Failure(IF v.issues[1].code = "NO_MEMBERS" THEN "no_members" ELSE "validation",
          JoinNL(ErrorMessages(v.issues)))

\* the value returned when validation.ok is false
Refusal(v) == Failure("validation", JoinNL(ErrorMessages(v.issues)))

NoRun ==
  [called |-> FALSE, thrown |-> FALSE, built |-> FALSE, dofMap |-> NoDofMap,
   assembled |-> <<>>, loads |-> <<>>, penalties |-> <<>>,
   solved |-> FALSE, sol |-> [threw |-> FALSE, x |-> EmptyMap], post |-> FALSE]

Outcome(result, r, in) == [result |-> result, run |-> r, input |-> in]

\* solveFem up to the linear solve (lines 338-398): either the call is over
\* (refused by validation, or a TypeError in the member loop), or K and F are
\* ready for the solve
Assemble(in) ==
  LET v == validateModel(in)
  IN IF ~v.ok
     THEN [over |-> TRUE,
           out |-> Outcome(Some(Refusal(v)),
                           [NoRun EXCEPT !.called = TRUE], in)]
     ELSE
     LET jointNodeIds == JointNodeIds(in.joints)
         dofMap == buildDofMap(in.nodes, in.members, in.joints)
         asm    == AssembleMembers(in, dofMap, 1, <<>>)
         built  == [NoRun EXCEPT !.called = TRUE, !.built = TRUE, !.dofMap = dofMap,
                                 !.assembled = asm.assembled]
     IN IF asm.thrown
        THEN [over |-> TRUE, out |-> Outcome(Null, [built EXCEPT !.thrown = TRUE], in)]
        ELSE
        LET grouped == distLoadsByMember(in.distLoads)
            loads   == AppliedPointLoads(in.pointLoads, dofMap)
                       \o AppliedDistLoads(grouped.groups, in.members, 1)
            pens    == applyBoundaryConditions(in.supports, dofMap, in.members,
                                               jointNodeIds, 1)
        IN [over |-> FALSE,
            out |-> Outcome(Null, [built EXCEPT !.loads = loads, !.penalties = pens],
                            [in EXCEPT !.distLoads = grouped.source])]

\* solveFem from the linear solve on (lines 400-459)
Finish(in, ready, pick) ==
  LET dofMap == ready.run.dofMap
      N      == dofMap.totalDof
      sol    == solve(N, pick)
      solved == [ready.run EXCEPT !.solved = TRUE, !.sol = sol]
  IN IF sol.threw
     THEN Outcome(Some(Failure("singular", <<"SINGULAR">>)), solved, ready.input)
     ELSE
     LET maxDisp == MaxAbs(sol.x, N, 0)
     IN IF ~isFinite(maxDisp) \/ AboveLimit(maxDisp)
        THEN Outcome(Some(Failure("unstable", <<"UNSTABLE">>)), solved, ready.input)
        ELSE Outcome(Some([ok |-> TRUE,
                           elements |-> ElementResults(in, 1),
                           reactions |-> Reactions(in.supports, dofMap, 1),
                           displacements |-> Displacements(in.nodes, dofMap, sol.x)]),
                     [solved EXCEPT !.post = TRUE], ready.input)

solveFem(in, pick) ==
  LET a == Assemble(in) IN IF a.over THEN a.out ELSE Finish(in, a.out, pick)

\* every way a call of solveFem on a snapshot can end
SolveFemOutcomes(in) ==
  LET a == Assemble(in)
  IN IF a.over THEN {a.out} ELSE { Finish(in, a.out, pick) : pick \in SolvePicks }

\* the module-level bindings solveFem reads: const PENALTY = 1e15 and the
\* imported DEFAULT_SECTION = { EA: 1e6, EI: 1e4 }
ModuleBindings ==
  [PENALTY |-> "1e15", DEFAULT_SECTION |-> [EA |-> 1000000, EI |-> 10000]]

(***************************************************************************)
(* The state machine: a caller holds a snapshot and calls the two          *)
(* functions on it, in any order and any number of times.                  *)
(***************************************************************************)
Init ==
  /\ \/ GraphSnapshot(input)
     \/ FrameSnapshot(input)
     \/ SupportSnapshot(input)
     \/ LoadSnapshot(input)
  /\ validation = Null
  /\ femResult = Null
  /\ run = NoRun
  /\ shared = ModuleBindings
  /\ isStale = FALSE
  /\ supportsState = <<>>

\* const vResult = validateModel(input)
ValidateModel ==
  /\ validation' = Some(validateModel(input))
  /\ UNCHANGED <<input, femResult, run, shared, isStale, supportsState>>

\* const result = solveFem(input)
SolveFem ==
  \E r \in SolveFemOutcomes(input) :
    /\ femResult' = r.result
    /\ run' = r.run
    /\ input' = r.input
    /\ UNCHANGED <<validation, shared, isStale, supportsState>>

Next == ValidateModel \/ SolveFem

Spec == Init /\ [][Next]_vars

(***************************************************************************)
(* useSupports: the support list of the editor                             *)
(***************************************************************************)
MaxEditorNodes == 2

\* the node ids the editor's calls can name
EditorNodeIds == 1..MaxEditorNodes

\* uid("S"): some id; nothing keeps two calls from returning the same one
SupportUids == {1, 2}

\* the angles a support is turned to, and the steps of Q/E
Angles == {0, 90}
Deltas == {-90, 90}

\* transferToNode without the filter that drops the moved support when the
\* target node already has one
transferToNodeKeep(prev, fromId, toId) ==
  [i \in DOMAIN prev |->
     IF prev[i].nodeId = fromId THEN [prev[i] EXCEPT !.nodeId = toId] ELSE prev[i]]

transferToNode(prev, fromId, toId) ==
  LET hasTarget == \E i \in DOMAIN prev : prev[i].nodeId = toId
      kept == SelectSeq(prev, LAMBDA s : s.nodeId # fromId \/ ~hasTarget)
  IN [i \in DOMAIN kept |->
        IF kept[i].nodeId = fromId THEN [kept[i] EXCEPT !.nodeId = toId] ELSE kept[i]]

\* prev.findIndex(s => s.nodeId === nodeId), 0 for -1
FindIndexByNode(prev, nodeId) ==
  IF \E i \in DOMAIN prev : prev[i].nodeId = nodeId
  THEN CHOOSE i \in DOMAIN prev :
         /\ prev[i].nodeId = nodeId
         /\ \A j \in DOMAIN prev : prev[j].nodeId = nodeId => i <= j
  ELSE 0

toggleSupport(prev, nodeId, supportType, newId) ==
  LET idx == FindIndexByNode(prev, nodeId)
  IN IF idx > 0
     THEN IF prev[idx].type = supportType
          THEN SelectSeq(prev, LAMBDA s : s.nodeId # nodeId)
          ELSE [i \in DOMAIN prev |->
                  IF prev[i].nodeId = nodeId THEN [prev[i] EXCEPT !.type = supportType]
                  ELSE prev[i]]
     ELSE Append(prev, Support(newId, nodeId, supportType))

rotateByKey(prev, id, delta) ==
  [i \in DOMAIN prev |->
     IF prev[i].id = id THEN [prev[i] EXCEPT !.angleDeg = @ + delta] ELSE prev[i]]

removeSupports(prev, ids) == SelectSeq(prev, LAMBDA s : s.id \notin ids)

removeByNodeIds(prev, nodeIds) == SelectSeq(prev, LAMBDA s : s.nodeId \notin nodeIds)

\* a snapshot without anything
EmptySnapshot == Snapshot(<<>>, <<>>, <<>>, <<>>, <<>>, <<>>, <<>>)

InitSupports ==
  /\ input = EmptySnapshot
  /\ validation = Null
  /\ femResult = Null
  /\ run = NoRun
  /\ shared = ModuleBindings
  /\ isStale = FALSE
  /\ supportsState = <<>>

ToggleSupport ==
  \E nodeId \in EditorNodeIds, supportType \in SupportTypes, newId \in SupportUids :
    /\ supportsState' = toggleSupport(supportsState, nodeId, supportType, newId)
    /\ UNCHANGED <<input, validation, femResult, run, shared, isStale>>

TransferToNode ==
  \E fromId \in EditorNodeIds, toId \in EditorNodeIds :
    /\ supportsState' = transferToNode(supportsState, fromId, toId)
    /\ UNCHANGED <<input, validation, femResult, run, shared, isStale>>

\* the angles are kept within Angles
RotateByKey ==
  \E id \in SupportUids, delta \in Deltas :
    /\ \A i \in DOMAIN supportsState :
         supportsState[i].id = id => supportsState[i].angleDeg + delta \in Angles
    /\ supportsState' = rotateByKey(supportsState, id, delta)
    /\ UNCHANGED <<input, validation, femResult, run, shared, isStale>>

RemoveSupports ==
  \E ids \in SUBSET SupportUids :
    /\ supportsState' = removeSupports(supportsState, ids)
    /\ UNCHANGED <<input, validation, femResult, run, shared, isStale>>

RemoveByNodeIds ==
  \E nodeIds \in SUBSET EditorNodeIds :
    /\ supportsState' = removeByNodeIds(supportsState, nodeIds)
    /\ UNCHANGED <<input, validation, femResult, run, shared, isStale>>

NextSupports ==
  \/ ToggleSupport
  \/ TransferToNode
  \/ RotateByKey
  \/ RemoveSupports
  \/ RemoveByNodeIds

SpecSupports == InitSupports /\ [][NextSupports]_vars


(***************************************************************************)
(* useFem: the analysis state of the editor (femResult, validation,        *)
(* isStale) and the model the editor holds                                 *)
(***************************************************************************)
\* the FemInput runAnalysis builds: six lists copied, no momentLoads
FemInputOf(in) ==
  [f \in {"nodes", "members", "supports", "joints", "pointLoads", "distLoads"} |-> in[f]]

HookState(v, result, stale, r) ==
  [validation |-> v, femResult |-> result, isStale |-> stale, run |-> r]

\* runAnalysis with the call of solveFem outside any try/catch: an exception
\* leaves femResult and isStale as they were
runAnalysisNoCatch(in, prevResult, prevStale) ==
  LET femInput == FemInputOf(in)
      vResult  == validateModel(femInput)
  IN IF ~vResult.ok
     THEN { HookState(Some(vResult), Some(Refusal(vResult)), FALSE, NoRun) }
     ELSE { IF r.run.thrown
            THEN HookState(Some(vResult), prevResult, prevStale, r.run)
            ELSE HookState(Some(vResult), r.result, FALSE, r.run) :
            r \in SolveFemOutcomes(femInput) }

\* every way a call of runAnalysis can end: the values of the three states
\* after it, and what the call of solveFem built
runAnalysis(in, prevResult, prevStale) ==
  LET femInput == FemInputOf(in)
      vResult  == validateModel(femInput)
  IN IF ~vResult.ok
     THEN { HookState(Some(vResult), Some(Refusal(vResult)), FALSE, NoRun) }
     ELSE { IF r.run.thrown
            THEN HookState(Some(vResult), Some(Failure("singular", <<"UNEXPECTED">>)),
                           FALSE, r.run)
            ELSE HookState(Some(vResult), r.result, FALSE, r.run) :
            r \in SolveFemOutcomes(femInput) }

\* the models the editor holds: the two beam nodes under every member list
\* (self loops and ids without a node included), with no support, a fix on
\* node 1 or a roller on node 2, with and without a moment load
EditorSnapshot(in) ==
  \E ms \in MemberLists({p \in RefIds \X RefIds : p[1] <= p[2]}, MaxMembers) :
    \E ss \in {<<>>, <<Support(1, 1, "fix")>>, <<Support(1, 2, "roller")>>} :
      \E mls \in MomentLoadLists :
        in = Snapshot(BeamNodes, ms, ss, <<>>, <<>>, <<>>, mls)

InitEditor ==
  /\ EditorSnapshot(input)
  /\ validation = Null
  /\ femResult = Null
  /\ run = NoRun
  /\ shared = ModuleBindings
  /\ isStale = FALSE
  /\ supportsState = <<>>

\* handleRunAnalysis: runAnalysis on the current model
RunAnalysis ==
  \E s \in runAnalysis(input, femResult, isStale) :
    /\ validation' = s.validation
    /\ femResult' = s.femResult
    /\ isStale' = s.isStale
    /\ run' = s.run
    /\ UNCHANGED <<input, shared, supportsState>>

\* the effect on the model lists after an edit that leaves the lists of the
\* snapshot as they are (a node is moved): if (femResult !== null) markStale()
MarkStale ==
  /\ femResult # Null
  /\ isStale' = TRUE
  /\ UNCHANGED <<input, validation, femResult, run, shared, supportsState>>

\* clearResult()
ClearResult ==
  /\ femResult' = Null
  /\ validation' = Null
  /\ isStale' = FALSE
  /\ UNCHANGED <<input, run, shared, supportsState>>

\* an edit after which the effect calls markStale whether a result is
\* present or not
EditModelMarksAlways ==
  /\ Len(input.supports) > 0
  /\ input' = [input EXCEPT !.supports = <<>>]
  /\ isStale' = TRUE
  /\ UNCHANGED <<validation, femResult, run, shared, supportsState>>

\* an edit of the model (here: the supports are deleted); the effect on the
\* model lists marks a present result stale
EditModel ==
  /\ Len(input.supports) > 0
  /\ input' = [input EXCEPT !.supports = <<>>]
  /\ isStale' = (IF femResult # Null THEN TRUE ELSE isStale)
  /\ UNCHANGED <<validation, femResult, run, shared, supportsState>>

NextEditor ==
  \/ RunAnalysis
  \/ MarkStale
  \/ ClearResult
  \/ EditModel

SpecEditor == InitEditor /\ [][NextEditor]_vars


(***************************************************************************)
(* The numbers of a solve, in exact arithmetic.  Lengths are whole metres  *)
(* along the axes, angles are multiples of 90 degrees and load magnitudes  *)
(* are multiples of 12, so that every entry of K and F is an integer.      *)
(* PENALTY is kept as a symbol: an entry of K is s + p * PENALTY.          *)
(***************************************************************************)
MaxForce == 2

Forces == { 12 * k : k \in 1..MaxForce }

\* Math.sin(deg2rad(angleDeg)) and Math.cos(deg2rad(angleDeg))
Sin(angleDeg) ==
  CASE angleDeg % 360 = 0 -> 0 [] angleDeg % 360 = 90 -> 1
    [] angleDeg % 360 = 180 -> 0 [] angleDeg % 360 = 270 -> -1

Cos(angleDeg) ==
  CASE angleDeg % 360 = 0 -> 1 [] angleDeg % 360 = 90 -> 0
    [] angleDeg % 360 = 180 -> -1 [] angleDeg % 360 = 270 -> 0

loadVector(angleDeg, magnitude) ==
  <<(-magnitude) * Sin(angleDeg), magnitude * Cos(angleDeg)>>

\* [cos, sin]: the two components exchanged
rollerConstraintVectorSwapped(angleDeg) == <<Cos(angleDeg), Sin(angleDeg)>>

rollerConstraintVector(angleDeg) == <<Sin(angleDeg), Cos(angleDeg)>>

\* Math.sqrt of a perfect square
Sqrt(n) == CHOOSE r \in 0..n : r * r = n

\* the coordinates are half units: L is in metres
memberGeom(a, b) ==
  LET dx == b.x - a.x
      dy == b.y - a.y
      L2 == Sqrt(dx * dx + dy * dy)
  IN [L |-> L2 \div 2, c |-> dx \div L2, s |-> dy \div L2]

localStiffness(L, EA, EI) ==
  LET a == EA \div L
      b == (12 * EI) \div (L * L * L)
      c == (6 * EI) \div (L * L)
      d == (4 * EI) \div L
      e == (2 * EI) \div L
  IN << << a,  0,  0, -a,  0,  0>>,
        << 0,  b,  c,  0, -b,  c>>,
        << 0,  c,  d,  0, -c,  e>>,
        <<-a,  0,  0,  a,  0,  0>>,
        << 0, -b, -c,  0,  b, -c>>,
        << 0,  c,  e,  0, -c,  d>> >>

transformMatrix(c, s) ==
  << << c,  s,  0,  0,  0,  0>>,
     <<-s,  c,  0,  0,  0,  0>>,
     << 0,  0,  1,  0,  0,  0>>,
     << 0,  0,  0,  c,  s,  0>>,
     << 0,  0,  0, -s,  c,  0>>,
     << 0,  0,  0,  0,  0,  1>> >>

RECURSIVE SumSeq(_)
SumSeq(s) == IF Len(s) = 0 THEN 0 ELSE Head(s) + SumSeq(Tail(s))

\* the product of two 6 x 6 matrices
MatMul(A, B) ==
  [i \in 1..6 |-> [j \in 1..6 |->
     A[i][1] * B[1][j] + A[i][2] * B[2][j] + A[i][3] * B[3][j]
     + A[i][4] * B[4][j] + A[i][5] * B[5][j] + A[i][6] * B[6][j]]]

Transpose(A) == [i \in 1..6 |-> [j \in 1..6 |-> A[j][i]]]

\* what assembleMember adds to K: KT = K_local * T, then T^T * KT
assembleMember(kl, T) == MatMul(Transpose(T), MatMul(kl, T))

\* the six unknowns of a member: [dA[0], dA[1], tAIdx, dB[0], dB[1], tBIdx]
MemberDofs(m, dofMap, jointNodeIds) ==
  <<dofMap.nodeDof[m.a][1], dofMap.nodeDof[m.a][2], getRotDof(m.id, m.a, dofMap, jointNodeIds),
    dofMap.nodeDof[m.b][1], dofMap.nodeDof[m.b][2], getRotDof(m.id, m.b, dofMap, jointNodeIds)>>

\* the place of unknown d among the six of a member, 0 when it is not one
LocalIndex(dofs, d) ==
  IF dofs[1] = d THEN 1 ELSE IF dofs[2] = d THEN 2 ELSE IF dofs[3] = d THEN 3
  ELSE IF dofs[4] = d THEN 4 ELSE IF dofs[5] = d THEN 5 ELSE IF dofs[6] = d THEN 6 ELSE 0

\* the members the loops of solveFem do not skip
SolvedMembers(in) ==
  SelectSeq(in.members,
            LAMBDA m : ~BelowSolveTol(NodeOf(in.nodes, m.a), NodeOf(in.nodes, m.b)))

\* K after the member loop
Stiffness(in, dofMap, section) ==
  LET ms == SolvedMembers(in)
      jointNodeIds == JointNodeIds(in.joints)
      parts == [k \in DOMAIN ms |->
                  LET g == memberGeom(NodeOf(in.nodes, ms[k].a), NodeOf(in.nodes, ms[k].b))
                  IN [ke |-> assembleMember(localStiffness(g.L, section.EA, section.EI),
                                            transformMatrix(g.c, g.s)),
                      dofs |-> MemberDofs(ms[k], dofMap, jointNodeIds)]]
  IN [i \in 0..(dofMap.totalDof - 1) |->
       [j \in 0..(dofMap.totalDof - 1) |->
          SumSeq([k \in DOMAIN parts |->
            LET a == LocalIndex(parts[k].dofs, i)
                b == LocalIndex(parts[k].dofs, j)
            IN IF a = 0 \/ b = 0 THEN 0 ELSE parts[k].ke[a][b]])]]

\* F[dof] += v
AddTo(dof, v) == [dof |-> dof, v |-> v]

applyPointLoad(dofMap, pl) ==
  IF pl.nodeId \notin DOMAIN dofMap.nodeDof THEN <<>>
  ELSE LET dofs == dofMap.nodeDof[pl.nodeId]
           f == loadVector(pl.angleDeg, pl.magnitude)
       IN <<AddTo(dofs[1], f[1]), AddTo(dofs[2], f[2])>>

\* members.find(m => m.id === mid)
FindMember(members, mid) ==
  members[CHOOSE k \in DOMAIN members :
            /\ members[k].id = mid
            /\ \A l \in DOMAIN members : members[l].id = mid => k <= l]

applyDistLoad(in, dofMap, dl) ==
  IF ~HasMember(in.members, dl.memberId) THEN <<>>
  ELSE LET m  == FindMember(in.members, dl.memberId)
           g  == memberGeom(NodeOf(in.nodes, m.a), NodeOf(in.nodes, m.b))
           w  == loadVector(dl.angleDeg, dl.magnitude)
           qu == w[1] * g.c + w[2] * g.s
           qv == (-w[1]) * g.s + w[2] * g.c
           fua == (qu * g.L) \div 2
           fva == (qv * g.L) \div 2
           ma  == (qv * g.L * g.L) \div 12
           mb  == (-(qv * g.L * g.L)) \div 12
           fxA == fua * g.c - fva * g.s
           fyA == fua * g.s + fva * g.c
           dofs == MemberDofs(m, dofMap, JointNodeIds(in.joints))
       IN <<AddTo(dofs[1], fxA), AddTo(dofs[2], fyA), AddTo(dofs[3], ma),
            AddTo(dofs[4], fxA), AddTo(dofs[5], fyA), AddTo(dofs[6], mb)>>

RECURSIVE Flatten(_)
Flatten(ss) == IF Len(ss) = 0 THEN <<>> ELSE Head(ss) \o Flatten(Tail(ss))

\* F after the two load loops
LoadVector(in, dofMap) ==
  LET adds == Flatten([k \in DOMAIN in.pointLoads |-> applyPointLoad(dofMap, in.pointLoads[k])])
              \o Flatten([k \in DOMAIN in.distLoads |->
                            applyDistLoad(in, dofMap, in.distLoads[k])])
  IN [i \in 0..(dofMap.totalDof - 1) |->
        SumSeq([k \in DOMAIN adds |-> IF adds[k].dof = i THEN adds[k].v ELSE 0])]

\* the factor of PENALTY in one addition of applyBoundaryConditions
PenaltyFactor(term, sup) ==
  LET n == rollerConstraintVector(sup.angleDeg)
  IN CASE term = "PENALTY" -> 1
       [] term = "PENALTY*nx*nx" -> n[1] * n[1]
       [] term = "PENALTY*nx*ny" -> n[1] * n[2]
       [] term = "PENALTY*ny*nx" -> n[2] * n[1]
       [] term = "PENALTY*ny*ny" -> n[2] * n[2]

\* the additions of applyBoundaryConditions for one support, in units of PENALTY
PenaltyAdds(sup, dofMap, members, jointNodeIds) ==
  LET adds == SupportPenalties(sup, dofMap, members, jointNodeIds)
  IN [e \in DOMAIN adds |->
        [row |-> adds[e].row, col |-> adds[e].col,
         factor |-> PenaltyFactor(adds[e].term, sup)]]

\* what applyBoundaryConditions adds to K, in units of PENALTY
Penalties(in, dofMap) ==
  LET jointNodeIds == JointNodeIds(in.joints)
      adds == Flatten([k \in DOMAIN in.supports |->
                         PenaltyAdds(in.supports[k], dofMap, in.members, jointNodeIds)])
  IN [i \in 0..(dofMap.totalDof - 1) |->
       [j \in 0..(dofMap.totalDof - 1) |->
          SumSeq([e \in DOMAIN adds |->
            IF adds[e].row = i /\ adds[e].col = j THEN adds[e].factor ELSE 0])]]

\* the system handed to solve(): K = s + p * PENALTY, and F
System(in, section) ==
  LET dofMap == buildDofMap(in.nodes, in.members, in.joints)
  IN [N |-> dofMap.totalDof,
      s |-> Stiffness(in, dofMap, section),
      p |-> Penalties(in, dofMap),
      F |-> LoadVector(in, dofMap)]

(***************************************************************************)
(* After the solve.  dispArray is the vector solve() returned: component d *)
(* is the unknown u[d].  Every number computed from it is a combination    *)
(*   sum_j (s[j] + p[j] * PENALTY) * u[j] + k                              *)
(* of the unknowns, kept as its coefficients.                              *)
(***************************************************************************)
ZeroVec(N) == [j \in 0..(N - 1) |-> 0]

Constant(N, k) == [s |-> ZeroVec(N), p |-> ZeroVec(N), k |-> k]

\* dispArray[d]
Unknown(N, d) ==
  [s |-> [j \in 0..(N - 1) |-> IF j = d THEN 1 ELSE 0], p |-> ZeroVec(N), k |-> 0]

Neg(f) ==
  [s |-> [j \in DOMAIN f.s |-> -f.s[j]], p |-> [j \in DOMAIN f.p |-> -f.p[j]], k |-> -f.k]

\* the group of a member holding its latest load only
distLoadsForMemberLast(in, m) ==
  LET own == SelectSeq(in.distLoads, LAMBDA dl : dl.memberId = m.id)
  IN IF Len(own) = 0 THEN <<>> ELSE <<own[Len(own)]>>

\* distLoadsByMember.get(m.id) ?? []
distLoadsForMember(in, m) ==
  LET groups == distLoadsByMember(in.distLoads).groups
      k == IndexOfGroup(groups, m.id)
  IN IF k = 0 THEN <<>> ELSE groups[k].dls

\* the fixed-end correction with the two end moments of the same sign
FixedEndSameSign(dls, g) ==
  [i \in 1..6 |->
     SumSeq([k \in DOMAIN dls |->
       LET w  == loadVector(dls[k].angleDeg, dls[k].magnitude)
           qu == w[1] * g.c + w[2] * g.s
           qv == (-w[1]) * g.s + w[2] * g.c
       IN CASE i = 1 -> (-(qu * g.L)) \div 2
            [] i = 2 -> (-(qv * g.L)) \div 2
            [] i = 3 -> (-(qv * g.L * g.L)) \div 12
            [] i = 4 -> (-(qu * g.L)) \div 2
            [] i = 5 -> (-(qv * g.L)) \div 2
            [] i = 6 -> (-(qv * g.L * g.L)) \div 12])]

\* the fixed-end correction of the distributed loads of a member
FixedEnd(dls, g) ==
  [i \in 1..6 |->
     SumSeq([k \in DOMAIN dls |->
       LET w  == loadVector(dls[k].angleDeg, dls[k].magnitude)
           qu == w[1] * g.c + w[2] * g.s
           qv == (-w[1]) * g.s + w[2] * g.c
       IN CASE i = 1 -> (-(qu * g.L)) \div 2
            [] i = 2 -> (-(qv * g.L)) \div 2
            [] i = 3 -> (-(qv * g.L * g.L)) \div 12
            [] i = 4 -> (-(qu * g.L)) \div 2
            [] i = 5 -> (-(qv * g.L)) \div 2
            [] i = 6 -> (qv * g.L * g.L) \div 12])]

\* The six unknowns of the member are disp[dofs[1..6]].  ql = T * q: row j of
\* T holds the coefficients of ql[j]; fl = K_local * ql: row i of K_local * T
\* holds the coefficients of fl[i]; fa = fl + fixedEnd.
calcElementForces(in, m, dofMap, section) ==
  LET N    == dofMap.totalDof
      dofs == MemberDofs(m, dofMap, JointNodeIds(in.joints))
      g    == memberGeom(NodeOf(in.nodes, m.a), NodeOf(in.nodes, m.b))
      ql   == transformMatrix(g.c, g.s)
      fl   == MatMul(localStiffness(g.L, section.EA, section.EI), ql)
      fixedEnd == FixedEnd(distLoadsForMember(in, m), g)
      fa   == [i \in 1..6 |->
                 [s |-> [d \in 0..(N - 1) |->
                           LET a == LocalIndex(dofs, d) IN IF a = 0 THEN 0 ELSE fl[i][a]],
                  p |-> ZeroVec(N),
                  k |-> fixedEnd[i]]]
  IN [memberId |-> m.id,
      Na |-> fa[1], Qa |-> Neg(fa[2]), Ma |-> fa[3],
      Nb |-> Neg(fa[4]), Qb |-> Neg(fa[5]), Mb |-> Neg(fa[6]),
      points |-> SAMPLES]

\* the reaction computed with K as it was before the boundary conditions
reactionAtDofUnpenalised(sys, dof) ==
  [s |-> sys.s[dof], p |-> ZeroVec(sys.N), k |-> -sys.F[dof]]

\* sum_j K[dof][j] * dispArray[j] - F[dof], with the K handed to solve()
reactionAtDof(sys, dof) == [s |-> sys.s[dof], p |-> sys.p[dof], k |-> -sys.F[dof]]

\* the reaction entries, each value computed
ReactionForms(supports, dofMap, sys) ==
  LET rs == Reactions(supports, dofMap, 1)
      AsForm(v) == IF v.kind = "reactionAtDof" THEN reactionAtDof(sys, v.dof)
                   ELSE Constant(sys.N, 0)
  IN [k \in DOMAIN rs |->
        [supportId |-> rs[k].supportId, nodeId |-> rs[k].nodeId,
         fx |-> AsForm(rs[k].fx), fy |-> AsForm(rs[k].fy), m |-> AsForm(rs[k].m)]]

\* the displacement entries with ux and uy read from each other's unknown
DisplacementFormsSwapped(nodes, dofMap) ==
  [i \in DOMAIN nodes |->
     LET d == dofMap.nodeDof[nodes[i].id]
         N == dofMap.totalDof
     IN [nodeId |-> nodes[i].id, ux |-> Unknown(N, d[2]), uy |-> Unknown(N, d[1]),
         rot |-> IF d[3] # -1 THEN Unknown(N, d[3]) ELSE Constant(N, 0)]]

\* nodes.map(n => ...), each value a combination of the unknowns
DisplacementForms(nodes, dofMap) ==
  [i \in DOMAIN nodes |->
     LET d == dofMap.nodeDof[nodes[i].id]
         N == dofMap.totalDof
     IN [nodeId |-> nodes[i].id, ux |-> Unknown(N, d[1]), uy |-> Unknown(N, d[2]),
         rot |-> IF d[3] # -1 THEN Unknown(N, d[3]) ELSE Constant(N, 0)]]

\* the success result of solveFem
SuccessResult(in, section, sys) ==
  LET dofMap == buildDofMap(in.nodes, in.members, in.joints)
      ms     == SolvedMembers(in)
  IN [ok |-> TRUE,
      elements |-> [k \in DOMAIN ms |-> calcElementForces(in, ms[k], dofMap, section)],
      reactions |-> ReactionForms(in.supports, dofMap, sys),
      displacements |-> DisplacementForms(in.nodes, dofMap)]

\* What solve() guarantees about the vector it returns: K * u = F.  A
\* combination whose coefficients are those of row d of K, or their
\* negatives, has the value F[d], or -F[d]; one without coefficients is its
\* constant; the value of any other combination is not determined by a
\* single equation.
SolvedValue(f, sys) ==
  LET rows == 0..(sys.N - 1)
      Is(d, sign) == /\ \A j \in rows : f.s[j] = sign * sys.s[d][j]
                     /\ \A j \in rows : f.p[j] = sign * sys.p[d][j]
  IN IF \A j \in rows : f.s[j] = 0 /\ f.p[j] = 0
     THEN [known |-> TRUE, value |-> f.k]
     ELSE IF \E d \in rows : Is(d, 1)
     THEN [known |-> TRUE, value |-> sys.F[CHOOSE d \in rows : Is(d, 1)] + f.k]
     ELSE IF \E d \in rows : Is(d, -1)
     THEN [known |-> TRUE, value |-> f.k - sys.F[CHOOSE d \in rows : Is(d, -1)]]
     ELSE [known |-> FALSE, value |-> 0]

(***************************************************************************)
(* Calls of solveFem on frames whose numbers are followed                  *)
(***************************************************************************)
\* a bar, a straight chain with unequal spans, and a chain with a corner;
\* node i has id i
FrameNodes ==
  { <<NodeAt(1, <<0, 0>>), NodeAt(2, <<2, 0>>)>>,
    <<NodeAt(1, <<0, 0>>), NodeAt(2, <<2, 0>>), NodeAt(3, <<6, 0>>)>>,
    <<NodeAt(1, <<0, 0>>), NodeAt(2, <<2, 0>>), NodeAt(3, <<2, 4>>)>> }

\* member i runs from node i to node i + 1
ChainMembers(nodes) == [i \in 1..(Len(nodes) - 1) |-> [id |-> i, a |-> i, b |-> i + 1]]

RollerAt(id, nodeId, angleDeg) ==
  [id |-> id, nodeId |-> nodeId, type |-> "roller", angleDeg |-> angleDeg]

\* a fix or a pin on node 1 and nothing, a pin or a roller on the last node
FrameSupports(nodes) ==
  { <<s1>> \o rest :
      s1 \in {Support(1, 1, "fix"), Support(1, 1, "pin")},
      rest \in {<<>>, <<Support(2, Len(nodes), "pin")>>,
                <<RollerAt(2, Len(nodes), 0)>>, <<RollerAt(2, Len(nodes), 90)>>,
                <<RollerAt(2, Len(nodes), 180)>>} }

\* no point load, or one on node 2 or node 3, downwards or to the right
FramePointLoads ==
  {<<>>} \cup
  { <<[id |-> 1, nodeId |-> n, angleDeg |-> a, magnitude |-> f]>> :
      n \in {2, 3}, a \in {0, -90}, f \in Forces }

\* no distributed load, or one on member 1 or member 2, or one on each
FrameDistLoads ==
  {<<>>} \cup
  { <<[id |-> 2, memberId |-> m, angleDeg |-> 0, magnitude |-> f]>> :
      m \in {1, 2}, f \in Forces } \cup
  { <<[id |-> 2, memberId |-> 2, angleDeg |-> 0, magnitude |-> 12],
      [id |-> 3, memberId |-> 1, angleDeg |-> 0, magnitude |-> 24]>> }

ForcesSnapshot(in) ==
  \E ns \in FrameNodes :
    \E ss \in FrameSupports(ns) :
      \E js \in {<<>>, <<[id |-> 1, nodeId |-> 2]>>} :
        \E pls \in FramePointLoads :
          \E dls \in FrameDistLoads :
            in = Snapshot(ns, ChainMembers(ns), ss, js, pls, dls, <<>>)

\* the module-level bindings after a call that doubled DEFAULT_SECTION.EA in
\* place
ModuleAfterCallWritten(bindings) ==
  [bindings EXCEPT !.DEFAULT_SECTION.EA = IF @ = 1000000 THEN 2000000 ELSE @]

\* the module-level bindings after a call: neither function assigns to one
ModuleAfterCall(bindings) == bindings

\* solve() throws, returns a vector of moderate numbers, or returns one with
\* an infinite component
FramePicks == { p \in SolvePicks : ~p.last /\ p.c \in {"small", "inf"} }

\* every way a call of solveFem can end, with the numbers of the system and
\* of a success
SolveFrameOutcomes(in, bindings) ==
  LET a == Assemble(in)
      sys == System(in, bindings.DEFAULT_SECTION)
      success == Some(SuccessResult(in, bindings.DEFAULT_SECTION, sys))
  IN IF a.over THEN { [a.out EXCEPT !.run = [system |-> Null] @@ @] }
     ELSE { LET o == Finish(in, a.out, pick)
            IN [o EXCEPT !.run = [system |-> Some(sys)] @@ @,
                         !.result = IF Val(@).ok THEN success ELSE @] :
            pick \in FramePicks }

\* nothing called yet
NoFrameRun == [system |-> Null] @@ NoRun

InitForces ==
  /\ ForcesSnapshot(input)
  /\ validation = Null
  /\ femResult = Null
  /\ run = NoFrameRun
  /\ shared = ModuleBindings
  /\ isStale = FALSE
  /\ supportsState = <<>>

\* const result = solveFem(input)
SolveFrame ==
  \E o \in SolveFrameOutcomes(input, shared) :
    /\ femResult' = o.result
    /\ run' = o.run
    /\ input' = o.input
    /\ shared' = ModuleAfterCall(shared)
    /\ UNCHANGED <<validation, isStale, supportsState>>

NextForces == SolveFrame

SpecForces == InitForces /\ [][NextForces]_vars

(***************************************************************************)
(* Snapshots with hinges: members meeting at joint nodes, supports on      *)
(* hinge nodes, joint records repeated on one node                         *)
(***************************************************************************)
MaxHingeJoints == 2

\* three nodes on a line, one metre apart
LineNodes == <<NodeAt(1, <<0, 0>>), NodeAt(2, <<2, 0>>), NodeAt(3, <<4, 0>>)>>

HingeNodeLists == { <<>>, BeamNodes, LineNodes }

HingeJointLists ==
  { [i \in DOMAIN js |-> [id |-> i, nodeId |-> js[i]]] :
      js \in SeqsUpTo(RefIds, MaxHingeJoints) }

HingeSupportLists ==
  { <<Support(1, 1, "fix")>>, <<Support(1, 2, "fix")>>, <<Support(1, 3, "fix")>>,
    <<Support(1, 1, "pin"), Support(2, 2, "roller")>>,
    <<Support(1, 2, "pin"), Support(2, 2, "fix")>>,
    <<Support(1, 1, "pin"), Support(2, 3, "pin")>> }

\* every member list over the three ids (self loops and ids without a node
\* included) under every joint list
HingeSnapshot(in) ==
  \E ns \in HingeNodeLists :
    \E ms \in MemberLists({p \in RefIds \X RefIds : p[1] <= p[2]}, MaxMembers) :
      \E js \in HingeJointLists :
        \E ss \in HingeSupportLists :
          in = Snapshot(ns, ms, ss, js, <<>>, <<>>, <<>>)

InitHinges ==
  /\ HingeSnapshot(input)
  /\ validation = Null
  /\ femResult = Null
  /\ run = NoFrameRun
  /\ shared = ModuleBindings
  /\ isStale = FALSE
  /\ supportsState = <<>>

NextHinges == SolveFrame

SpecHinges == InitHinges /\ [][NextHinges]_vars


(***************************************************************************)
(* A caller that calls the two functions on one snapshot after another     *)
(***************************************************************************)
\* a bar or a chain fixed at node 1, unloaded or with one point load
CallsSnapshot(in) ==
  \E ns \in FrameNodes :
    \E pls \in {<<>>, <<[id |-> 1, nodeId |-> 2, angleDeg |-> -90, magnitude |-> 12]>>} :
      in = Snapshot(ns, ChainMembers(ns), <<Support(1, 1, "fix")>>, <<>>, pls, <<>>, <<>>)

InitCalls ==
  /\ CallsSnapshot(input)
  /\ validation = Null
  /\ femResult = Null
  /\ run = NoFrameRun
  /\ shared = ModuleBindings
  /\ isStale = FALSE
  /\ supportsState = <<>>

\* the caller goes on with another snapshot
NextSnapshot ==
  /\ CallsSnapshot(input')
  /\ UNCHANGED <<validation, femResult, run, shared, isStale, supportsState>>

NextCalls ==
  \/ ValidateModel
  \/ SolveFrame
  \/ NextSnapshot

SpecCalls == InitCalls /\ [][NextCalls]_vars

(***************************************************************************)
(* The sample points of an element result.  The record calcElementForces   *)
(* returns is followed with the number of its points; their values are     *)
(* computed here from the same end forces.  With t = i / 10 and x = t * L, *)
(* a point holds 10 * N, 10 * Q and 200 * M, which are whole combinations. *)
(***************************************************************************)
Scaled(f, c) ==
  [s |-> [j \in DOMAIN f.s |-> c * f.s[j]], p |-> [j \in DOMAIN f.p |-> c * f.p[j]],
   k |-> c * f.k]

Plus(f, g) ==
  [s |-> [j \in DOMAIN f.s |-> f.s[j] + g.s[j]], p |-> [j \in DOMAIN f.p |-> f.p[j] + g.p[j]],
   k |-> f.k + g.k]

\* qu_dist += qu; qv_dist += qv
DistSums(dls, g) ==
  [qu |-> SumSeq([k \in DOMAIN dls |->
                    LET w == loadVector(dls[k].angleDeg, dls[k].magnitude)
                    IN w[1] * g.c + w[2] * g.s]),
   qv |-> SumSeq([k \in DOMAIN dls |->
                    LET w == loadVector(dls[k].angleDeg, dls[k].magnitude)
                    IN (-w[1]) * g.s + w[2] * g.c])]

\* the points taken at t = i / SAMPLES for i = 1..SAMPLES
SectionPointsFromOne(el, dist, L) ==
  [n \in 1..SAMPLES |->
     LET N == Cardinality(DOMAIN el.Na.s)
     IN [t |-> <<n, SAMPLES>>,
         N10  |-> Plus(Scaled(el.Na, 10), Constant(N, -(dist.qu * n * L))),
         Q10  |-> Plus(Scaled(el.Qa, 10), Constant(N, -(dist.qv * n * L))),
         M200 |-> Plus(Plus(Scaled(el.Ma, 200), Scaled(el.Qa, 20 * n * L)),
                       Constant(N, -(dist.qv * n * n * L * L)))]]

\* for (let i = 0; i < SAMPLES; i++) points.push({ t, N, Q, M })
SectionPoints(el, dist, L) ==
  [n \in 1..SAMPLES |->
     LET i == n - 1
         N == Cardinality(DOMAIN el.Na.s)
     IN [t |-> <<i, SAMPLES - 1>>,
         N10  |-> Plus(Scaled(el.Na, 10), Constant(N, -(dist.qu * i * L))),
         Q10  |-> Plus(Scaled(el.Qa, 10), Constant(N, -(dist.qv * i * L))),
         M200 |-> Plus(Plus(Scaled(el.Ma, 200), Scaled(el.Qa, 20 * i * L)),
                       Constant(N, -(dist.qv * i * i * L * L)))]]

\* the points of the element result of member m
ElementPoints(in, m, dofMap, section) ==
  LET g == memberGeom(NodeOf(in.nodes, m.a), NodeOf(in.nodes, m.b))
  IN SectionPoints(calcElementForces(in, m, dofMap, section),
                   DistSums(distLoadsForMember(in, m), g), g.L)

(***************************************************************************)
(* Calls of solveFem on frames under lists of distributed loads            *)
(***************************************************************************)
MaxDistLoads == 2

\* a distributed load on member 1 or 2, along or across the global axes
DistLoadChoices == {1, 2} \X {0, 90} \X Forces

DistLists ==
  { [i \in DOMAIN ls |-> [id |-> i, memberId |-> ls[i][1], angleDeg |-> ls[i][2],
                          magnitude |-> ls[i][3]]] :
      ls \in SeqsUpTo(DistLoadChoices, MaxDistLoads) }

\* a bar or a chain, fixed at node 1, simply supported, or with a pin and a
\* fix on node 1, under every list of distributed loads (on the bar, member 2
\* is a member id that does not exist)
DistSnapshot(in) ==
  \E ns \in FrameNodes :
    \E ss \in {<<Support(1, 1, "fix")>>,
               <<Support(1, 1, "pin"), RollerAt(2, Len(ns), 0)>>,
               <<Support(1, 1, "pin"), Support(2, 1, "fix")>>} :
      \E dls \in DistLists :
        in = Snapshot(ns, ChainMembers(ns), ss, <<>>, <<>>, dls, <<>>)

InitDist ==
  /\ DistSnapshot(input)
  /\ validation = Null
  /\ femResult = Null
  /\ run = NoFrameRun
  /\ shared = ModuleBindings
  /\ isStale = FALSE
  /\ supportsState = <<>>

NextDist == SolveFrame

SpecDist == InitDist /\ [][NextDist]_vars


(***************************************************************************)
(* The editor's nodes, members and distributed loads (useDrawLine,         *)
(* useDistLoads and the handlers that call them).  Nodes sit on grid       *)
(* points of one grid line; x counts grid steps.  uid() returns an id that *)
(* is in use nowhere in the editor: here the smallest such number.         *)
(***************************************************************************)
MaxEditorX == 2
MaxMemberUids == 3
MaxNodeUids == 3
MaxLoadUids == 2

EditorXs == 0..MaxEditorX
MemberUids == 1..MaxMemberUids
NodeUids == 1..MaxNodeUids
LoadUids == 1..MaxLoadUids

\* uid(p): an id of the pool that is not in use
NewId(used, pool) == CHOOSE i \in pool \ used : \A j \in pool \ used : i <= j

\* the member ids in use: those of the members and those the loads name
UsedMemberIds(in) ==
  { in.members[k].id : k \in DOMAIN in.members }
     \cup { in.distLoads[k].memberId : k \in DOMAIN in.distLoads }

UsedNodeIds(in) ==
  { in.nodes[k].id : k \in DOMAIN in.nodes }
     \cup { in.members[k].a : k \in DOMAIN in.members }
     \cup { in.members[k].b : k \in DOMAIN in.members }

\* toggleDistLoad
toggleDistLoad(prev, memberId, newId) ==
  IF \E k \in DOMAIN prev : prev[k].memberId = memberId
  THEN SelectSeq(prev, LAMBDA l : l.memberId # memberId)
  ELSE Append(prev, [id |-> newId, memberId |-> memberId, angleDeg |-> 0, magnitude |-> 1])

\* removeDistLoads
removeDistLoads(prev, ids) == SelectSeq(prev, LAMBDA l : l.id \notin ids)

\* removeByMemberIds
removeByMemberIds(prev, memberIds) == SelectSeq(prev, LAMBDA l : l.memberId \notin memberIds)

\* proj.t > 1e-6 && proj.t < 1 - 1e-6 && proj.dist < 1e-6 on grid points: the
\* point is on the segment, strictly between its ends
InsideSegment(x, y, na, nb) ==
  LET dx == nb.x - na.x
      dy == nb.y - na.y
      dot == (x - na.x) * dx + (y - na.y) * dy
  IN /\ dx * dx + dy * dy # 0
     /\ (x - na.x) * dy - (y - na.y) * dx = 0
     /\ 0 < dot
     /\ dot < dx * dx + dy * dy

\* the members splitMembersOnNode splits
SplitTargets(nodeId, x, y, nodes, members) ==
  { i \in DOMAIN members :
      /\ members[i].a # nodeId
      /\ members[i].b # nodeId
      /\ HasNode(nodes, members[i].a)
      /\ HasNode(nodes, members[i].b)
      /\ InsideSegment(x, y, NodeOf(nodes, members[i].a), NodeOf(nodes, members[i].b)) }

RECURSIVE splitMembersOnNode(_, _, _, _, _, _, _, _)
splitMembersOnNode(nodeId, x, y, nodes, members, i, result, used) ==
  IF i > Len(members) THEN result
  ELSE IF i \notin SplitTargets(nodeId, x, y, nodes, members)
  THEN splitMembersOnNode(nodeId, x, y, nodes, members, i + 1, result, used)
  ELSE LET m == members[i]
           id1 == NewId(used, MemberUids)
           id2 == NewId(used \cup {id1}, MemberUids)
       IN splitMembersOnNode(nodeId, x, y, nodes, members, i + 1,
            SelectSeq(result, LAMBDA r : r.id # m.id)
              \o <<[id |-> id1, a |-> m.a, b |-> nodeId], [id |-> id2, a |-> nodeId, b |-> m.b]>>,
            used \cup {id1, id2})

\* the members after splitMember(memberId, x, y) made node newNodeId
splitMember(members, memberId, newNodeId, used) ==
  LET target == FindMember(members, memberId)
      id1 == NewId(used, MemberUids)
      id2 == NewId(used \cup {id1}, MemberUids)
  IN SelectSeq(members, LAMBDA m : m.id # memberId)
       \o <<[id |-> id1, a |-> target.a, b |-> newNodeId],
            [id |-> id2, a |-> newNodeId, b |-> target.b]>>

\* the members after deleteNode(nodeId)
deleteNode(members, nodeId, used) ==
  LET connected == SelectSeq(members, LAMBDA m : m.a = nodeId \/ m.b = nodeId)
      rest == SelectSeq(members, LAMBDA m : m.a # nodeId /\ m.b # nodeId)
  IN IF Len(connected) # 2 THEN rest
     ELSE LET a == IF connected[1].a = nodeId THEN connected[1].b ELSE connected[1].a
              c == IF connected[2].a = nodeId THEN connected[2].b ELSE connected[2].a
              dup == \E k \in DOMAIN rest :
                       \/ rest[k].a = a /\ rest[k].b = c
                       \/ rest[k].a = c /\ rest[k].b = a
          IN IF dup THEN rest
             ELSE Append(rest, [id |-> NewId(used, MemberUids), a |-> a, b |-> c])

\* the members after mergeNode(nodeIdB, nodeIdA)
mergeNode(members, nodeIdB, nodeIdA) ==
  LET rewritten == [k \in DOMAIN members |->
                      [members[k] EXCEPT !.a = IF @ = nodeIdB THEN nodeIdA ELSE @,
                                         !.b = IF @ = nodeIdB THEN nodeIdA ELSE @]]
      noLoop == SelectSeq(rewritten, LAMBDA m : m.a # m.b)
      Key(m) == {m.a, m.b}
      firstOfKey == { k \in DOMAIN noLoop : \A l \in 1..(k - 1) : Key(noLoop[l]) # Key(noLoop[k]) }
      marked == [k \in DOMAIN noLoop |-> [m |-> noLoop[k], keep |-> k \in firstOfKey]]
      kept == SelectSeq(marked, LAMBDA r : r.keep)
  IN [k \in DOMAIN kept |-> kept[k].m]

\* the editor after a drawing: a bar over two grid steps, or a chain of two
\* members, without loads
EditorDrawing(in) ==
  \E ns \in { <<NodeAt(1, <<0, 0>>), NodeAt(2, <<2, 0>>)>>,
              <<NodeAt(1, <<0, 0>>), NodeAt(2, <<1, 0>>), NodeAt(3, <<2, 0>>)>> } :
    in = Snapshot(ns, ChainMembers(ns), <<>>, <<>>, <<>>, <<>>, <<>>)

InitMembers ==
  /\ EditorDrawing(input)
  /\ validation = Null
  /\ femResult = Null
  /\ run = NoRun
  /\ shared = ModuleBindings
  /\ isStale = FALSE
  /\ supportsState = <<>>

EditorRest == <<validation, femResult, run, shared, isStale, supportsState>>

\* a click on a member in distLoad mode: a member that has a load is
\* selected, another gets one
ToggleDistLoad ==
  \E k \in DOMAIN input.members :
    LET used == { input.distLoads[l].id : l \in DOMAIN input.distLoads }
    IN /\ HasNode(input.nodes, input.members[k].a)
       /\ HasNode(input.nodes, input.members[k].b)
       /\ \A l \in DOMAIN input.distLoads :
            input.distLoads[l].memberId # input.members[k].id
       /\ LoadUids \ used # {}
       /\ input' = [input EXCEPT !.distLoads =
                      toggleDistLoad(@, input.members[k].id, NewId(used, LoadUids))]
       /\ UNCHANGED EditorRest

\* handleDelete with distributed loads selected
DeleteDistLoads ==
  \E l \in DOMAIN input.distLoads :
    /\ input' = [input EXCEPT !.distLoads = removeDistLoads(@, {input.distLoads[l].id})]
    /\ UNCHANGED EditorRest

\* handleDelete with members selected
DeleteMembers ==
  \E delIds \in (SUBSET { input.members[k].id : k \in DOMAIN input.members }) \ {{}} :
    LET deleted == SelectSeq(input.members, LAMBDA m : m.id \in delIds)
        next == SelectSeq(input.members, LAMBDA m : m.id \notin delIds)
        used == { next[k].a : k \in DOMAIN next } \cup { next[k].b : k \in DOMAIN next }
        toRemove == ({ deleted[k].a : k \in DOMAIN deleted }
                       \cup { deleted[k].b : k \in DOMAIN deleted }) \ used
    IN /\ input' = [input EXCEPT
                      !.members = next,
                      !.nodes = SelectSeq(@, LAMBDA n : n.id \notin toRemove),
                      !.supports = removeByNodeIds(@, toRemove),
                      !.joints = SelectSeq(@, LAMBDA j : j.nodeId \notin toRemove),
                      !.pointLoads = SelectSeq(@, LAMBDA l : l.nodeId \notin toRemove),
                      !.momentLoads = SelectSeq(@, LAMBDA l : l.nodeId \notin toRemove),
                      !.distLoads = removeByMemberIds(@, delIds)]
       /\ UNCHANGED EditorRest

\* handleDelete in node-edit mode with a node selected
DeleteNode ==
  \E k \in DOMAIN input.nodes :
    LET nodeId == input.nodes[k].id
        removed == {nodeId}
    IN /\ MemberUids \ UsedMemberIds(input) # {}
       /\ input' = [input EXCEPT
                      !.members = deleteNode(@, nodeId, UsedMemberIds(input)),
                      !.nodes = SelectSeq(@, LAMBDA n : n.id # nodeId),
                      !.supports = removeByNodeIds(@, removed),
                      !.joints = SelectSeq(@, LAMBDA j : j.nodeId \notin removed),
                      !.pointLoads = SelectSeq(@, LAMBDA l : l.nodeId \notin removed),
                      !.momentLoads = SelectSeq(@, LAMBDA l : l.nodeId \notin removed)]
       /\ UNCHANGED EditorRest

\* a shift-click on a member in node-edit mode: splitMember at a grid point
\* strictly inside the member
SplitMember ==
  \E k \in DOMAIN input.members :
    \E x \in EditorXs :
      /\ HasNode(input.nodes, input.members[k].a)
      /\ HasNode(input.nodes, input.members[k].b)
      /\ InsideSegment(x, 0, NodeOf(input.nodes, input.members[k].a),
                       NodeOf(input.nodes, input.members[k].b))
      /\ NodeUids \ UsedNodeIds(input) # {}
      /\ Cardinality(MemberUids \ UsedMemberIds(input)) >= 2
      /\ LET newNodeId == NewId(UsedNodeIds(input), NodeUids)
         IN input' = [input EXCEPT
                        !.nodes = Append(@, NodeAt(newNodeId, <<x, 0>>)),
                        !.members = splitMember(@, input.members[k].id, newNodeId,
                                                UsedMemberIds(input))]
      /\ UNCHANGED EditorRest

\* a drag step in node-edit mode: moveNode(nodeId, x, y, true)
MoveNode ==
  \E k \in DOMAIN input.nodes :
    \E x \in EditorXs :
      LET nodeId == input.nodes[k].id
          currentNodes == [i \in DOMAIN input.nodes |->
                             IF input.nodes[i].id = nodeId
                             THEN [input.nodes[i] EXCEPT !.x = x, !.y = 0]
                             ELSE input.nodes[i]]
      IN /\ x # input.nodes[k].x
         /\ Cardinality(MemberUids \ UsedMemberIds(input))
              >= 2 * Cardinality(SplitTargets(nodeId, x, 0, currentNodes, input.members))
         /\ input' = [input EXCEPT
                        !.nodes = currentNodes,
                        !.members = splitMembersOnNode(nodeId, x, 0, currentNodes, @, 1, @,
                                                       UsedMemberIds(input))]
         /\ UNCHANGED EditorRest

\* the end of a drag that left the node on another node: the supports are
\* transferred and mergeNode(target.id, draggedId) removes the other node
MergeNode ==
  \E k \in DOMAIN input.nodes :
    LET dragged == input.nodes[k]
        targets == { i \in DOMAIN input.nodes :
                       /\ input.nodes[i].id # dragged.id
                       /\ input.nodes[i].x = dragged.x
                       /\ input.nodes[i].y = dragged.y }
    IN /\ targets # {}
       /\ LET target == input.nodes[CHOOSE i \in targets : \A j \in targets : i <= j]
          IN input' = [input EXCEPT
                         !.supports = transferToNode(@, target.id, dragged.id),
                         !.members = mergeNode(@, target.id, dragged.id),
                         !.nodes = SelectSeq(@, LAMBDA n : n.id # target.id)]
       /\ UNCHANGED EditorRest

\* the first click of a path in drawLine mode on a grid point without a
\* node: addPoint makes a node and splits the members it lies on
AddPoint ==
  \E x \in EditorXs :
    /\ \A k \in DOMAIN input.nodes : input.nodes[k].x # x \/ input.nodes[k].y # 0
    /\ NodeUids \ UsedNodeIds(input) # {}
    /\ LET nodeId == NewId(UsedNodeIds(input), NodeUids)
           nodes == Append(input.nodes, NodeAt(nodeId, <<x, 0>>))
       IN /\ Cardinality(MemberUids \ UsedMemberIds(input))
               >= 2 * Cardinality(SplitTargets(nodeId, x, 0, nodes, input.members))
          /\ input' = [input EXCEPT
                         !.nodes = nodes,
                         !.members = splitMembersOnNode(nodeId, x, 0, nodes, @, 1, @,
                                                        UsedMemberIds(input))]
    /\ UNCHANGED EditorRest

NextMembers ==
  \/ ToggleDistLoad
  \/ DeleteDistLoads
  \/ DeleteMembers
  \/ DeleteNode
  \/ SplitMember
  \/ MoveNode
  \/ MergeNode
  \/ AddPoint

SpecMembers == InitMembers /\ [][NextMembers]_vars

(***************************************************************************)
(* Reference notions the properties are stated with.  They are written     *)
(* from the meaning of the words, not from the code above.                 *)
(***************************************************************************)
\* the node ids referenced by members
Vertices(members) == UNION { {members[i].a, members[i].b} : i \in DOMAIN members }

\* the vertices one member away from a set of vertices
Neighbours(members, S) ==
  { v \in Vertices(members) :
      \E i \in DOMAIN members :
        \/ (members[i].a \in S /\ members[i].b = v)
        \/ (members[i].b \in S /\ members[i].a = v) }

RECURSIVE Reach(_, _)
Reach(members, S) ==
  IF Neighbours(members, S) \subseteq S THEN S
  ELSE Reach(members, S \cup Neighbours(members, S))

\* the connected components of the undirected graph of the members
Components(members) == { Reach(members, {v}) : v \in Vertices(members) }

\* pin = 2, roller = 1, fix = 3
Weight(type) == CASE type = "pin" -> 2 [] type = "roller" -> 1 [] type = "fix" -> 3

RECURSIVE SumWeights(_)
SumWeights(supports) ==
  IF Len(supports) = 0 THEN 0
  ELSE Weight(Head(supports).type) + SumWeights(Tail(supports))

HasCode(v, code) == \E i \in DOMAIN v.issues : v.issues[i].code = code

\* the messages of the issues of one level, in issue order
RECURSIVE MessagesOfLevel(_, _)
MessagesOfLevel(issues, level) ==
  IF Len(issues) = 0 THEN <<>>
  ELSE (IF Head(issues).level = level THEN <<Head(issues).message>> ELSE <<>>)
       \o MessagesOfLevel(Tail(issues), level)

\* a text cut at its newlines
RECURSIVE SplitNL(_, _, _)
SplitNL(text, i, line) ==
  IF i > Len(text) THEN <<line>>
  ELSE IF text[i] = "\n" THEN <<line>> \o SplitNL(text, i + 1, <<>>)
  ELSE SplitNL(text, i + 1, Append(line, text[i]))

Validated == ~IsNull(validation)

Returned == ~IsNull(femResult)

Failed == Returned /\ ~Val(femResult).ok

Refused == Failed /\ Val(femResult).reason = "validation"

NothingBuilt ==
  /\ ~run.built
  /\ run.dofMap = NoDofMap
  /\ run.assembled = <<>>
  /\ run.loads = <<>>
  /\ run.penalties = <<>>
  /\ ~run.solved
  /\ ~run.post

C2_Total == run.called => (Returned /\ ~run.thrown)

(***************************************************************************)
(* C3: for a model with zero members validateModel returns ok = false and  *)
(* exactly one issue, the NO_MEMBERS error, whatever else the model holds. *)
(***************************************************************************)
C3_NoMembersOnly ==
  (Validated /\ Len(input.members) = 0) =>
    LET v == Val(validation)
    IN /\ v.ok = FALSE
       /\ Len(v.issues) = 1
       /\ v.issues[1].code = "NO_MEMBERS"
       /\ v.issues[1].level = "error"

\* a validated model with nodes, a support, a joint and loads but no member
C3_Witness ==
  /\ Validated
  /\ Len(input.members) = 0
  /\ Len(input.nodes) > 0
  /\ Len(input.supports) > 0
  /\ Len(input.joints) > 0
  /\ Len(input.pointLoads) + Len(input.distLoads) > 0

C5_Connectivity ==
  (Validated /\ Len(input.members) > 0) =>
    LET v == Val(validation)
        n == Cardinality(Components(input.members))
    IN /\ HasCode(v, "DISCONNECTED_STRUCTURE") <=> n > 1
       /\ \A i \in DOMAIN v.issues :
            v.issues[i].code = "DISCONNECTED_STRUCTURE"
              => v.issues[i].message = <<"DISCONNECTED_STRUCTURE", Digit[n + 1]>>

\* three members that chain four nodes into one component
C5_Witness ==
  /\ Validated
  /\ Len(input.members) = 3
  /\ Cardinality(Vertices(input.members)) = 4
  /\ Cardinality(Components(input.members)) = 1
  /\ ~HasCode(Val(validation), "DISCONNECTED_STRUCTURE")

(***************************************************************************)
(* C6: the conditions of checks 2 to 10, each compared with the presence   *)
(* of its issue.  The condition of check 6 is a parameter.                 *)
(***************************************************************************)
ChecksAgree(v, in, insufficient) ==
  /\ HasCode(v, "ISOLATED_NODES")
       <=> \E i \in DOMAIN in.nodes : in.nodes[i].id \notin Vertices(in.members)
  /\ HasCode(v, "DISCONNECTED_STRUCTURE")
       <=> Cardinality(Components(in.members)) > 1
  /\ HasCode(v, "NO_SUPPORTS") <=> Len(in.supports) = 0
  /\ HasCode(v, "SUPPORT_NOT_ON_MEMBER")
       <=> \E i \in DOMAIN in.supports : in.supports[i].nodeId \notin Vertices(in.members)
  /\ HasCode(v, "INSUFFICIENT_CONSTRAINTS") <=> insufficient
  /\ HasCode(v, "NO_LOADS") <=> (Len(in.pointLoads) = 0 /\ Len(in.distLoads) = 0)
  /\ HasCode(v, "ZERO_MAGNITUDE_LOAD")
       <=> \/ \E i \in DOMAIN in.pointLoads : in.pointLoads[i].magnitude = 0
           \/ \E i \in DOMAIN in.distLoads : in.distLoads[i].magnitude = 0
  /\ HasCode(v, "DUPLICATE_NODES")
       <=> \E i, j \in DOMAIN in.nodes :
             /\ i < j
             /\ Round(in.nodes[i].x) = Round(in.nodes[j].x)
             /\ Round(in.nodes[i].y) = Round(in.nodes[j].y)
  /\ HasCode(v, "ZERO_LENGTH_MEMBER")
       <=> \E k \in DOMAIN in.members : \E i, j \in DOMAIN in.nodes :
             /\ in.nodes[i].id = in.members[k].a
             /\ in.nodes[j].id = in.members[k].b
             /\ in.nodes[i].x = in.nodes[j].x
             /\ in.nodes[i].y = in.nodes[j].y
  /\ \A i, j \in DOMAIN v.issues : v.issues[i].code = v.issues[j].code => i = j

C7_OkIffNoError ==
  Validated =>
    LET v == Val(validation)
    IN /\ v.ok <=> (\A i \in DOMAIN v.issues : v.issues[i].level # "error")
       /\ \A i \in DOMAIN v.issues :
            /\ v.issues[i].level \in {"error", "warning"}
            /\ v.issues[i].code \in {"NO_LOADS", "ZERO_MAGNITUDE_LOAD", "DUPLICATE_NODES"}
                 <=> v.issues[i].level = "warning"

\* a model that passes with two warnings
C7_Witness ==
  /\ Validated
  /\ Val(validation).ok
  /\ Len(Val(validation).issues) >= 2

(***************************************************************************)
(* C8: every failure solveFem returns has reason "validation", "singular"  *)
(* or "unstable", never "unsupported" or "no_members"; a model with zero   *)
(* members fails with reason "validation".                                 *)
(***************************************************************************)
C8_FailureReasons ==
  /\ Failed => Val(femResult).reason \in {"validation", "singular", "unstable"}
  /\ (run.called /\ Len(input.members) = 0) => Refused

\* a call on a model without members, returned
C8_Witness ==
  /\ run.called
  /\ Len(input.members) = 0
  /\ Failed

C10_InputUnchanged == [][input' = input]_vars

\* after a successful solve of a model with a distributed load, validated too
C10_Witness ==
  /\ Validated
  /\ run.post
  /\ Len(input.distLoads) > 0
  /\ Len(input.pointLoads) > 0

(***************************************************************************)
(* C12: the moment loads are not consumed.  For a snapshot with a moment   *)
(* load, validateModel and solveFem return what they return for the same   *)
(* snapshot with an empty momentLoads list and for the same snapshot       *)
(* without the list; when there is no point load and no distributed load   *)
(* the NO_LOADS warning is reported and nothing is added to the load       *)
(* vector.                                                                 *)
(***************************************************************************)
WithoutField(in, field) == [f \in (DOMAIN in) \ {field} |-> in[f]]

Results(in) == { r.result : r \in SolveFemOutcomes(in) }

C12_MomentLoadsIgnored ==
  Len(input.momentLoads) > 0 =>
    LET none   == [input EXCEPT !.momentLoads = <<>>]
        absent == WithoutField(input, "momentLoads")
        unloaded == Len(input.pointLoads) = 0 /\ Len(input.distLoads) = 0
    IN /\ Validated => /\ Val(validation) = validateModel(none)
                       /\ Val(validation) = validateModel(absent)
                       /\ unloaded => HasCode(Val(validation), "NO_LOADS")
       /\ run.called => /\ femResult \in Results(none)
                        /\ femResult \in Results(absent)
                        /\ Results(input) = Results(none)
                        /\ Results(input) = Results(absent)
       /\ (run.built /\ unloaded) => run.loads = <<>>

\* a model whose only load is a moment load, validated and solved
C12_Witness ==
  /\ Len(input.momentLoads) > 0
  /\ Len(input.pointLoads) = 0
  /\ Len(input.distLoads) = 0
  /\ Validated
  /\ HasCode(Val(validation), "NO_LOADS")
  /\ run.post

(***************************************************************************)
(* C16: in a success result there is one reaction entry per support, in    *)
(* order; its moment is computed from the system (the reaction at the      *)
(* node's rotation unknown) when the support is a fix on a node that is    *)
(* not in the joint list, and is the constant 0 for every pin, every       *)
(* roller and every fix on a hinge node.                                   *)
(***************************************************************************)
C16_MomentReaction ==
  (Returned /\ Val(femResult).ok) =>
    LET reactions == Val(femResult).reactions
        hinges == { input.joints[j].nodeId : j \in DOMAIN input.joints }
    IN /\ Len(reactions) = Len(input.supports)
       /\ \A k \in DOMAIN reactions :
            LET sup == input.supports[k]
                r == reactions[k]
            IN /\ r.supportId = sup.id
               /\ r.nodeId = sup.nodeId
               /\ IF sup.type = "fix" /\ sup.nodeId \notin hinges
                  THEN /\ r.m.kind = "reactionAtDof"
                       /\ r.m.dof = run.dofMap.nodeDof[sup.nodeId][3]
                       /\ r.m.dof >= 0
                  ELSE r.m = [kind |-> "zero", dof |-> -1]

\* a success with a fix support on a hinge node
C16_Witness ==
  /\ Returned
  /\ Val(femResult).ok
  /\ \E k \in DOMAIN input.supports :
       /\ input.supports[k].type = "fix"
       /\ \E j \in DOMAIN input.joints : input.joints[j].nodeId = input.supports[k].nodeId

(***************************************************************************)
(* C20: starting from the empty support list, after any sequence of        *)
(* toggleSupport, transferToNode, rotateByKey, removeSupports and          *)
(* removeByNodeIds no two support records have the same nodeId.            *)
(***************************************************************************)
C20_OneSupportPerNode ==
  \A i, j \in DOMAIN supportsState :
    supportsState[i].nodeId = supportsState[j].nodeId => i = j

\* every node carries a support, one of them turned and one of them retyped
C20_Witness ==
  /\ Len(supportsState) = MaxEditorNodes
  /\ \E i \in DOMAIN supportsState : supportsState[i].angleDeg # 0
  /\ \E i, j \in DOMAIN supportsState : supportsState[i].type # supportsState[j].type

(***************************************************************************)
(* C19: every call of runAnalysis ends with a result stored (femResult is  *)
(* not null) and isStale false, whether validateModel refuses, solveFem    *)
(* returns a success or a failure, or solveFem throws; when solveFem       *)
(* throws the stored result is a failure with reason "singular"; and in    *)
(* every state of the editor a stored result has reason "validation"       *)
(* exactly when the stored validation result has ok = false.               *)
(***************************************************************************)
RefusedIffInvalid ==
  Returned => (Validated /\ (Refused <=> ~Val(validation).ok))

C19_RunIsTotal ==
  /\ []RefusedIffInvalid
  /\ [][RunAnalysis =>
          /\ femResult' # Null
          /\ isStale' = FALSE
          /\ validation' # Null
          /\ run'.thrown =>
               (~Val(femResult').ok /\ Val(femResult').reason = "singular")]_vars

\* solveFem has thrown on a model that validation let through, and the editor
\* shows a fresh "singular" failure
C19_Witness ==
  /\ run.thrown
  /\ Validated
  /\ Val(validation).ok
  /\ Failed
  /\ Val(femResult).reason = "singular"
  /\ ~isStale

(***************************************************************************)
(* Notions the numbers of a result are read with                           *)
(***************************************************************************)
Succeeded == Returned /\ Val(femResult).ok

\* the value the solved system gives to a reported number
Reported(f) == SolvedValue(f, Val(run.system))

HingeNodes == { input.joints[j].nodeId : j \in DOMAIN input.joints }

SupportedNodes == { input.supports[k].nodeId : k \in DOMAIN input.supports }

LoadedMembers == { input.distLoads[k].memberId : k \in DOMAIN input.distLoads }

\* nodes 1, 2, 3 on one horizontal line, a pin on node 1 and a roller with
\* angle 0 on node 3, no hinge, and a single load: a point load on node 2,
\* downwards (angle 0)
SimplySupportedBeam ==
  /\ Len(input.nodes) = 3
  /\ \A i \in DOMAIN input.nodes : input.nodes[i].y = input.nodes[1].y
  /\ input.supports = <<Support(1, 1, "pin"), RollerAt(2, 3, 0)>>
  /\ input.joints = <<>>
  /\ input.distLoads = <<>>
  /\ Len(input.pointLoads) = 1
  /\ input.pointLoads[1].nodeId = 2
  /\ input.pointLoads[1].angleDeg = 0

(***************************************************************************)
(* C13: for a simply supported beam with one downward point load of        *)
(* magnitude P on the interior node, the fy values of the two reaction     *)
(* entries of a success result add up to P or to -P.                       *)
(***************************************************************************)
C13_ReactionsBalance ==
  (Succeeded /\ SimplySupportedBeam) =>
    LET P   == input.pointLoads[1].magnitude
        fy1 == Reported(Val(femResult).reactions[1].fy)
        fy2 == Reported(Val(femResult).reactions[2].fy)
    IN (fy1.known /\ fy2.known) => (fy1.value + fy2.value) \in {P, -P}

(***************************************************************************)
(* C14: in a success result, a member end at a node of the joint list that *)
(* carries no support reports the end moment 0 (Mb when the member ends    *)
(* there, Ma when it starts there), whatever point loads and distributed   *)
(* loads are applied.                                                      *)
(***************************************************************************)
C14_HingeMomentZero ==
  Succeeded =>
    \A k \in DOMAIN Val(femResult).elements :
      LET el == Val(femResult).elements[k]
          m  == input.members[k]
          FreeHinge(n) == n \in HingeNodes /\ n \notin SupportedNodes
      IN /\ el.memberId = m.id
         /\ FreeHinge(m.b) => Reported(el.Mb) = [known |-> TRUE, value |-> 0]
         /\ FreeHinge(m.a) => Reported(el.Ma) = [known |-> TRUE, value |-> 0]

\* a solved chain of two members with a hinge on the interior node, a point
\* load on it and distributed loads on both members
C14_Witness ==
  /\ Succeeded
  /\ Len(input.members) = 2
  /\ HingeNodes = {2}
  /\ 2 \notin SupportedNodes
  /\ Len(input.pointLoads) = 1
  /\ LoadedMembers = {1, 2}

(***************************************************************************)
(* C15: for a member without distributed load, when its b end is displaced *)
(* away from its a end along the member axis (elongation) the reported Na  *)
(* and Nb are both positive, and when it is displaced towards the a end    *)
(* (shortening) both are negative.                                         *)
(***************************************************************************)
\* EA / L times the elongation (u_b - u_a) . (c, s) of member m
Stretch(m) ==
  LET sys  == Val(run.system)
      a    == NodeOf(input.nodes, m.a)
      b    == NodeOf(input.nodes, m.b)
      len  == Sqrt(LenSq(a, b))
      kax  == (2 * shared.DEFAULT_SECTION.EA) \div len
      cx   == (b.x - a.x) \div len
      cy   == (b.y - a.y) \div len
      da   == run.dofMap.nodeDof[m.a]
      db   == run.dofMap.nodeDof[m.b]
  IN [s |-> [d \in 0..(sys.N - 1) |->
               kax * ((IF d = db[1] THEN cx ELSE 0) + (IF d = db[2] THEN cy ELSE 0)
                      - (IF d = da[1] THEN cx ELSE 0) - (IF d = da[2] THEN cy ELSE 0))],
      p |-> [d \in 0..(sys.N - 1) |-> 0],
      k |-> 0]

C15_TensionPositive ==
  Succeeded =>
    \A k \in DOMAIN Val(femResult).elements :
      LET el == Val(femResult).elements[k]
          m  == input.members[k]
          e  == Reported(Stretch(m))
          Na == Reported(el.Na)
          Nb == Reported(el.Nb)
      IN (m.id \notin LoadedMembers /\ e.known /\ Na.known /\ Nb.known) =>
           /\ e.value > 0 => (Na.value > 0 /\ Nb.value > 0)
           /\ e.value < 0 => (Na.value < 0 /\ Nb.value < 0)

(***************************************************************************)
(* C17: in a success result there is one displacement entry per node, in   *)
(* node order; ux and uy are the solved values of the node's two           *)
(* translational unknowns; rot is 0 for a node of the joint list and the   *)
(* solved value of the node's rotation unknown for every other node.       *)
(***************************************************************************)
\* the solved value of unknown d, as a reported number
Solved(d) ==
  [s |-> [j \in 0..(run.dofMap.totalDof - 1) |-> IF j = d THEN 1 ELSE 0],
   p |-> [j \in 0..(run.dofMap.totalDof - 1) |-> 0],
   k |-> 0]

C17_Displacements ==
  Succeeded =>
    LET ds == Val(femResult).displacements
    IN /\ Len(ds) = Len(input.nodes)
       /\ \A i \in DOMAIN ds :
            LET n == input.nodes[i]
                d == run.dofMap.nodeDof[n.id]
            IN /\ ds[i].nodeId = n.id
               /\ ds[i].ux = Solved(d[1])
               /\ ds[i].uy = Solved(d[2])
               /\ d[1] # d[2]
               /\ IF n.id \in HingeNodes
                  THEN Reported(ds[i].rot) = [known |-> TRUE, value |-> 0]
                  ELSE /\ d[3] \in 0..(run.dofMap.totalDof - 1)
                       /\ d[3] \notin {d[1], d[2]}
                       /\ ds[i].rot = Solved(d[3])

\* a success on three nodes, the interior one a hinge
C17_Witness ==
  /\ Succeeded
  /\ Len(input.nodes) = 3
  /\ HingeNodes = {2}

FreshResults(in) == { o.result : o \in SolveFrameOutcomes(in, ModuleBindings) }

JointSet == { input.joints[i].nodeId : i \in DOMAIN input.joints }

\* the member ends: member i of the list, at its endpoint a or b
MemberEnds == (DOMAIN input.members) \X {"a", "b"}

EndNode(e) == IF e[2] = "a" THEN input.members[e[1]].a ELSE input.members[e[1]].b

HingeEnds == { e \in MemberEnds : EndNode(e) \in JointSet }

\* the places an index is stored in: a position of a node's triple that does
\* not hold the sentinel, or an entry of the hinge map
Slots(dm) ==
  { <<"node", id, k>> : id \in DOMAIN dm.nodeDof, k \in 1..3 }
     \cup { <<"hinge", key[1], key[2]>> : key \in DOMAIN dm.hingeDof }

SlotIndex(dm, s) ==
  IF s[1] = "node" THEN dm.nodeDof[s[2]][s[3]] ELSE dm.hingeDof[<<s[2], s[3]>>]

UsedSlots(dm) == { s \in Slots(dm) : SlotIndex(dm, s) # -1 }

\* a joint list without the later records of a node that already has one
FirstJoints ==
  SelectSeq([i \in DOMAIN input.joints |->
               [j |-> input.joints[i],
                first |-> \A k \in 1..(i - 1) :
                            input.joints[k].nodeId # input.joints[i].nodeId]],
            LAMBDA r : r.first)

DistinctJoints == [i \in DOMAIN FirstJoints |-> FirstJoints[i].j]

\* every endpoint of every member is the id of a node of the list
EndpointsResolve ==
  \A e \in MemberEnds : \E i \in DOMAIN input.nodes : input.nodes[i].id = EndNode(e)

DofsAreBijection ==
  LET dm == run.dofMap
      N  == dm.totalDof
      hingeNodes == { i \in DOMAIN input.nodes : input.nodes[i].id \in JointSet }
  IN /\ DOMAIN dm.nodeDof = { input.nodes[i].id : i \in DOMAIN input.nodes }
     /\ \A i \in DOMAIN input.nodes :
          LET d == dm.nodeDof[input.nodes[i].id]
          IN /\ d[1] \in 0..(N - 1)
             /\ d[2] = d[1] + 1
             /\ d[3] = IF i \in hingeNodes THEN -1 ELSE d[1] + 2
     /\ DOMAIN dm.hingeDof = { <<input.members[e[1]].id, EndNode(e)>> : e \in HingeEnds }
     /\ \A s, t \in UsedSlots(dm) : SlotIndex(dm, s) = SlotIndex(dm, t) => s = t
     /\ { SlotIndex(dm, s) : s \in UsedSlots(dm) } = 0..(N - 1)
     /\ N = 3 * (Len(input.nodes) - Cardinality(hingeNodes))
            + 2 * Cardinality(hingeNodes) + Cardinality(HingeEnds)
     /\ buildDofMap(input.nodes, input.members, DistinctJoints) = dm

(***************************************************************************)
(* C21: in every call that builds the map of unknowns, the indices stored  *)
(* in nodeDof and hingeDof are a bijection onto 0..totalDof-1: a node      *)
(* outside the joint set has three consecutive indices, a node in it two   *)
(* and the sentinel -1, every member end at a hinge node one index of its  *)
(* own; totalDof = 3*(non-hinge nodes) + 2*(hinge nodes) + (member ends at *)
(* hinge nodes); repeated joint records on a node change nothing.          *)
(***************************************************************************)
C21_DofBijection == run.built => DofsAreBijection

\* the same for the calls in which every member endpoint is a node of the list
C21_WhenEndpointsResolve == (run.built /\ EndpointsResolve) => DofsAreBijection

\* the members (by place in the list) that have node n as an endpoint
MembersAt(n) == { i \in DOMAIN input.members : n \in {input.members[i].a, input.members[i].b} }

\* the unknowns member i was assembled with
AssembledDofs(i) ==
  LET k == CHOOSE k \in DOMAIN run.assembled :
             run.assembled[k].memberId = input.members[i].id
  IN run.assembled[k].dofs

\* the call got past the member loop
Assembled == run.built /\ ~run.thrown

(***************************************************************************)
(* C22: for two distinct members meeting at a node, getRotDof returns the  *)
(* same valid index for both when the node is not a hinge, and two         *)
(* different valid indices (neither -1 nor undefined) when it is a hinge;  *)
(* every per-member hinge unknown is in the list of unknowns of exactly    *)
(* one member, the same list in stiffness assembly, load assembly and      *)
(* force recovery.                                                         *)
(***************************************************************************)
C22_RotationSharing ==
  Assembled =>
    LET dm == run.dofMap
        N  == dm.totalDof
        rot(i, n) == getRotDof(input.members[i].id, n, dm, JointSet)
    IN /\ \A n \in { input.nodes[k].id : k \in DOMAIN input.nodes } :
            \A i, j \in MembersAt(n) :
              i # j =>
                /\ n \in JointSet =>
                     /\ <<input.members[i].id, n>> \in DOMAIN dm.hingeDof
                     /\ <<input.members[j].id, n>> \in DOMAIN dm.hingeDof
                /\ rot(i, n) \in 0..(N - 1)
                /\ rot(j, n) \in 0..(N - 1)
                /\ (rot(i, n) = rot(j, n)) <=> (n \notin JointSet)
       /\ \A key \in DOMAIN dm.hingeDof :
            Cardinality({ i \in DOMAIN input.members :
                            \E p \in 1..6 : AssembledDofs(i)[p] = dm.hingeDof[key] }) = 1
       /\ \A i \in DOMAIN input.members :
            /\ AssembledDofs(i) = MemberDofs(input.members[i], dm, JointSet)
            /\ AssembledDofs(i)[3] = rot(i, input.members[i].a)
            /\ AssembledDofs(i)[6] = rot(i, input.members[i].b)

\* a finished call on a model in which two members meet at a hinge node and
\* two at a node that is not one
C22_Witness ==
  /\ run.post
  /\ \E n \in JointSet : Cardinality(MembersAt(n)) = 2
  /\ \E k \in DOMAIN input.nodes :
       input.nodes[k].id \notin JointSet /\ Cardinality(MembersAt(input.nodes[k].id)) = 2

\* the unknowns of node n: its translations, its rotation if it has one, and
\* the hinge unknowns of the member ends at it
HingeUnknownsAt(dm, n) == { dm.hingeDof[key] : key \in { k \in DOMAIN dm.hingeDof : k[2] = n } }

NodeUnknowns(dm, n) ==
  IF n \notin DOMAIN dm.nodeDof THEN {}
  ELSE ({ dm.nodeDof[n][k] : k \in 1..3 } \ {-1}) \cup HingeUnknownsAt(dm, n)

\* the additions to K one support stands for in the call
AddsOf(sup) == SupportPenalties(sup, run.dofMap, input.members, JointSet)

\* how many of the additions go to entry (i, j) with the given term
TimesAdded(adds, i, j, term) ==
  Cardinality({ e \in DOMAIN adds : adds[e] = Add(i, j, term) })

(***************************************************************************)
(* C23: applyBoundaryConditions adds only to entries of K whose row and    *)
(* column are unknowns of the node of a support; a pin support adds the    *)
(* full penalty to K[ux][ux] and K[uy][uy] of its node and nothing else,   *)
(* so no rotation entry changes; a support whose node has no entry in      *)
(* nodeDof adds nothing.                                                   *)
(***************************************************************************)
C23_PenaltyFrame ==
  run.built =>
    LET dm == run.dofMap
        supported == { input.supports[k].nodeId : k \in DOMAIN input.supports }
        touched == UNION { NodeUnknowns(dm, n) : n \in supported }
    IN /\ \A e \in DOMAIN run.penalties :
            run.penalties[e].row \in touched /\ run.penalties[e].col \in touched
       /\ \A k \in DOMAIN input.supports :
            LET sup == input.supports[k]
                adds == AddsOf(sup)
            IN /\ \A e \in DOMAIN adds :
                    /\ adds[e].row \in NodeUnknowns(dm, sup.nodeId)
                    /\ adds[e].col \in NodeUnknowns(dm, sup.nodeId)
               /\ sup.nodeId \notin DOMAIN dm.nodeDof => adds = <<>>
               /\ (sup.type = "pin" /\ sup.nodeId \in DOMAIN dm.nodeDof) =>
                    LET d == dm.nodeDof[sup.nodeId]
                    IN /\ Len(adds) = 2
                       /\ TimesAdded(adds, d[1], d[1], "PENALTY") = 1
                       /\ TimesAdded(adds, d[2], d[2], "PENALTY") = 1
       /\ Assembled =>
            run.penalties = applyBoundaryConditions(input.supports, dm, input.members,
                                                    JointSet, 1)

\* a finished call on a model with a pin support on a node that has a
\* rotation unknown of its own
C23_Witness ==
  /\ run.post
  /\ \E k \in DOMAIN input.supports :
       /\ input.supports[k].type = "pin"
       /\ input.supports[k].nodeId \notin JointSet
       /\ Len(AddsOf(input.supports[k])) = 2
       /\ \E e \in DOMAIN run.penalties :
            run.penalties[e].row = run.dofMap.nodeDof[input.supports[k].nodeId][1]

(***************************************************************************)
(* C24: a fix support on a hinge node adds the penalty to the diagonal of  *)
(* ux and uy of the node and of the hinge rotation unknown of every member *)
(* end at the node, so none of them stays without penalty; a fix support   *)
(* on a node that is not a hinge adds it to ux, uy and the node's own      *)
(* rotation unknown only.                                                  *)
(***************************************************************************)
C24_FixOnHinge ==
  Assembled =>
    \A k \in DOMAIN input.supports :
      LET sup == input.supports[k]
          dm == run.dofMap
          d == dm.nodeDof[sup.nodeId]
          adds == AddsOf(sup)
          held == IF sup.nodeId \in JointSet
                  THEN {d[1], d[2]} \cup HingeUnknownsAt(dm, sup.nodeId)
                  ELSE {d[1], d[2], d[3]}
      IN sup.type = "fix" =>
           /\ \A e \in DOMAIN adds :
                adds[e].row = adds[e].col /\ adds[e].term = "PENALTY"
           /\ { adds[e].row : e \in DOMAIN adds } = held
           /\ Len(adds) = Cardinality(held)
           /\ sup.nodeId \in JointSet =>
                /\ Cardinality(HingeUnknownsAt(dm, sup.nodeId))
                     = Cardinality({ e \in HingeEnds : EndNode(e) = sup.nodeId })
                /\ HingeUnknownsAt(dm, sup.nodeId) \subseteq { adds[e].row : e \in DOMAIN adds }

\* a finished call on a model with a fix support on a hinge node two members
\* meet at
C24_Witness ==
  /\ run.post
  /\ \E k \in DOMAIN input.supports :
       /\ input.supports[k].type = "fix"
       /\ input.supports[k].nodeId \in JointSet
       /\ Cardinality(MembersAt(input.supports[k].nodeId)) = 2
       /\ Len(AddsOf(input.supports[k])) = 4

(***************************************************************************)
(* Notions the distributed loads of a call are read with                   *)
(***************************************************************************)
\* what a call on the snapshot can return, and the points of its elements
ResultsOf(in) == { o.result : o \in SolveFrameOutcomes(in, ModuleBindings) }

PointsOf(in) ==
  LET dofMap == buildDofMap(in.nodes, in.members, in.joints)
  IN [k \in DOMAIN in.members |->
        ElementPoints(in, in.members[k], dofMap, ModuleBindings.DEFAULT_SECTION)]

SameAnswer(in1, in2) == ResultsOf(in1) = ResultsOf(in2) /\ PointsOf(in1) = PointsOf(in2)

\* the snapshot with its distributed loads in another order
Orders(n) == { f \in [1..n -> 1..n] : \A i, j \in 1..n : f[i] = f[j] => i = j }

Reordered(in) ==
  { [in EXCEPT !.distLoads = [i \in DOMAIN in.distLoads |-> in.distLoads[f[i]]]] :
      f \in Orders(Len(in.distLoads)) }

\* the snapshot with two loads of one member and one angle replaced by one
\* load of the sum of their magnitudes
Merged(in) ==
  { [in EXCEPT !.distLoads =
       SelectSeq([k \in DOMAIN in.distLoads |->
                    IF k = i THEN [in.distLoads[i] EXCEPT
                                     !.magnitude = @ + in.distLoads[j].magnitude]
                    ELSE IF k = j THEN [in.distLoads[j] EXCEPT !.memberId = 0]
                    ELSE in.distLoads[k]],
                 LAMBDA dl : dl.memberId # 0)] :
      <<i, j>> \in { p \in (DOMAIN in.distLoads) \X (DOMAIN in.distLoads) :
                       /\ p[1] < p[2]
                       /\ in.distLoads[p[1]].memberId = in.distLoads[p[2]].memberId
                       /\ in.distLoads[p[1]].angleDeg = in.distLoads[p[2]].angleDeg } }

\* the sum of the load vectors of all the loads that name member m
Resultant(m) ==
  LET own == SelectSeq(input.distLoads, LAMBDA dl : dl.memberId = m.id)
      w == [k \in DOMAIN own |-> loadVector(own[k].angleDeg, own[k].magnitude)]
  IN <<SumSeq([k \in DOMAIN own |-> w[k][1]]), SumSeq([k \in DOMAIN own |-> w[k][2]])>>

\* the equivalent nodal forces of the resultant of member m, on unknown d
ResultantOnDof(m, d) ==
  LET g  == memberGeom(NodeOf(input.nodes, m.a), NodeOf(input.nodes, m.b))
      w  == Resultant(m)
      qu == w[1] * g.c + w[2] * g.s
      qv == w[2] * g.c - w[1] * g.s
      fx == (qu * g.L * g.c - qv * g.L * g.s) \div 2
      fy == (qu * g.L * g.s + qv * g.L * g.c) \div 2
      mo == (qv * g.L * g.L) \div 12
      dofs == MemberDofs(m, run.dofMap, JointSet)
  IN (IF d \in {dofs[1], dofs[4]} THEN fx ELSE 0)
     + (IF d \in {dofs[2], dofs[5]} THEN fy ELSE 0)
     + (IF d = dofs[3] THEN mo ELSE 0) + (IF d = dofs[6] THEN -mo ELSE 0)

(***************************************************************************)
(* C25: distributed loads accumulate per member.  Every load that names a  *)
(* member adds its fixed-end forces to F and to the force recovery of that *)
(* member (F and the corrections are those of the sum of the member's      *)
(* loads); the answer of solveFem does not depend on the order of the list *)
(* of loads; two loads of one member with one angle and magnitudes q1, q2  *)
(* give the answer of one load of magnitude q1 + q2.                       *)
(***************************************************************************)
C25_DistLoadsAccumulate ==
  /\ \A in2 \in Reordered(input) \cup Merged(input) : SameAnswer(input, in2)
  /\ Succeeded =>
       /\ femResult \in UNION { ResultsOf(in2) : in2 \in Reordered(input) \cup Merged(input) }
       /\ \A d \in 0..(run.dofMap.totalDof - 1) :
            Val(run.system).F[d]
              = SumSeq([k \in DOMAIN input.members |-> ResultantOnDof(input.members[k], d)])
       /\ \A k \in DOMAIN input.members :
            LET m == input.members[k]
                g == memberGeom(NodeOf(input.nodes, m.a), NodeOf(input.nodes, m.b))
                w == Resultant(m)
                qu == w[1] * g.c + w[2] * g.s
                qv == w[2] * g.c - w[1] * g.s
                el == Val(femResult).elements[k]
            IN /\ DistSums(distLoadsForMember(input, m), g) = [qu |-> qu, qv |-> qv]
               /\ el.Na.k = (-(qu * g.L)) \div 2
               /\ el.Qa.k = (qv * g.L) \div 2
               /\ el.Ma.k = (-(qv * g.L * g.L)) \div 12
               /\ el.Mb.k = (-(qv * g.L * g.L)) \div 12

\* a finished call on a model with two loads of different magnitudes on one
\* member and in one direction
C25_Witness ==
  /\ Succeeded
  /\ Len(input.distLoads) = 2
  /\ input.distLoads[1].memberId = input.distLoads[2].memberId
  /\ input.distLoads[1].angleDeg = input.distLoads[2].angleDeg
  /\ input.distLoads[1].magnitude # input.distLoads[2].magnitude
  /\ input.distLoads[1].memberId \in DOMAIN Val(femResult).elements
  /\ Val(femResult).elements[input.distLoads[1].memberId].Ma.k # 0

(***************************************************************************)
(* C26: shape of a success result.  elements has one entry per member in   *)
(* the order of the member list (none is skipped), each with 11 sample     *)
(* points at t = i/10, i = 0..10, the first of them equal to (Na, Qa, Ma); *)
(* reactions has one entry per support in the order of the support list,   *)
(* also when two supports sit on one node; displacements has one entry per *)
(* node in the order of the node list.                                     *)
(***************************************************************************)
C26_ResultShape ==
  Succeeded =>
    LET r == Val(femResult)
        pts == PointsOf(input)
    IN /\ [k \in DOMAIN r.elements |-> r.elements[k].memberId]
            = [k \in DOMAIN input.members |-> input.members[k].id]
       /\ \A k \in DOMAIN r.elements :
            /\ r.elements[k].points = 11
            /\ Len(pts[k]) = r.elements[k].points
            /\ \A n \in 1..11 : pts[k][n].t = <<n - 1, 10>>
            /\ pts[k][1].N10 = Scaled(r.elements[k].Na, 10)
            /\ pts[k][1].Q10 = Scaled(r.elements[k].Qa, 10)
            /\ pts[k][1].M200 = Scaled(r.elements[k].Ma, 200)
       /\ [k \in DOMAIN r.reactions |-> r.reactions[k].supportId]
            = [k \in DOMAIN input.supports |-> input.supports[k].id]
       /\ [k \in DOMAIN r.reactions |-> r.reactions[k].nodeId]
            = [k \in DOMAIN input.supports |-> input.supports[k].nodeId]
       /\ [k \in DOMAIN r.displacements |-> r.displacements[k].nodeId]
            = [k \in DOMAIN input.nodes |-> input.nodes[k].id]

\* a success on a chain of two loaded members with two supports on node 1
C26_Witness ==
  /\ Succeeded
  /\ Len(input.members) = 2
  /\ Len(input.supports) = 2
  /\ input.supports[1].nodeId = input.supports[2].nodeId
  /\ Len(input.distLoads) = 2
  /\ Len(Val(femResult).reactions) = 2
  /\ Len(Val(femResult).elements) = 2

(***************************************************************************)
(* C27: no orphan unknown.  In a call on a validated model whose member    *)
(* endpoints are all nodes of the list, every index in 0..totalDof-1 is    *)
(* one of the six unknowns of at least one assembled member, and no row of *)
(* the stiffness matrix is zero before the boundary conditions are         *)
(* applied, whatever the joints and supports.                              *)
(***************************************************************************)
C27_NoOrphanUnknown ==
  (Assembled /\ EndpointsResolve) =>
    \A d \in 0..(run.dofMap.totalDof - 1) :
      /\ \E i \in DOMAIN input.members : \E p \in 1..6 : AssembledDofs(i)[p] = d
      /\ \E j \in 0..(run.dofMap.totalDof - 1) : Val(run.system).s[d][j] # 0

\* a finished call on three nodes with hinge unknowns
C27_Witness ==
  /\ run.post
  /\ EndpointsResolve
  /\ Len(input.nodes) = 3
  /\ Cardinality(DOMAIN run.dofMap.hingeDof) >= 2
  /\ \E k \in DOMAIN input.supports : input.supports[k].nodeId \in JointSet

\* row d of the matrix handed to solve(), times the solution, minus F[d]
RowOfSolvedSystem(d) ==
  LET sys == Val(run.system)
  IN [s |-> sys.s[d], p |-> sys.p[d], k |-> -sys.F[d]]

\* how many fix and pin supports sit on node n
HoldersAt(n) ==
  Cardinality({ k \in DOMAIN input.supports :
                  input.supports[k].nodeId = n /\ input.supports[k].type \in {"fix", "pin"} })

(***************************************************************************)
(* C28: the reactions are computed with the matrix and the load vector     *)
(* that were handed to the linear solve: every reaction component is row   *)
(* dof of that K, penalty terms included, times the solved displacements,  *)
(* minus F[dof] of that F; the penalty on the diagonal of a held           *)
(* translation is still in the row, K is not restored to its form before   *)
(* the boundary conditions.                                                *)
(***************************************************************************)
C28_ReactionsFromSolvedSystem ==
  Succeeded =>
    LET r == Val(femResult).reactions
        sys == Val(run.system)
    IN \A k \in DOMAIN r :
         LET sup == input.supports[k]
             d == run.dofMap.nodeDof[sup.nodeId]
         IN /\ r[k].fx = RowOfSolvedSystem(d[1])
            /\ r[k].fy = RowOfSolvedSystem(d[2])
            /\ (sup.type = "fix" /\ d[3] # -1) => r[k].m = RowOfSolvedSystem(d[3])
            /\ sup.type \in {"fix", "pin"} =>
                 /\ r[k].fx.p[d[1]] = HoldersAt(sup.nodeId)
                 /\ r[k].fy.p[d[2]] = HoldersAt(sup.nodeId)
            /\ (sup.type = "roller" /\ sup.angleDeg \in {0, 180}) =>
                 r[k].fy.p[d[2]] = HoldersAt(sup.nodeId) + 1

\* a success whose first reaction has a load term and a penalty term
C28_Witness ==
  /\ Succeeded
  /\ Len(Val(femResult).reactions) = 2
  /\ Val(femResult).reactions[1].fy.k # 0
  /\ \E j \in DOMAIN Val(femResult).reactions[1].fy.p : Val(femResult).reactions[1].fy.p[j] # 0
  /\ \E j \in DOMAIN Val(femResult).reactions[1].fy.s : Val(femResult).reactions[1].fy.s[j] # 0

(***************************************************************************)
(* C29: the stale flag of the editor.  From femResult = null and isStale = *)
(* false, after any sequence of edits, runAnalysis and clearResult,        *)
(* isStale is true only while femResult is not null; runAnalysis and       *)
(* clearResult leave isStale false; an edit made while there is no result  *)
(* does not set it.                                                        *)
(***************************************************************************)
StaleOnlyWithResult == isStale => femResult # Null

C29_StaleFlag ==
  /\ []StaleOnlyWithResult
  /\ [][/\ RunAnalysis => ~isStale'
        /\ ClearResult => ~isStale'
        /\ (EditModel /\ femResult = Null) => ~isStale'
        /\ ((EditModel \/ MarkStale) /\ femResult # Null) => (isStale' /\ femResult' = femResult)]_vars

\* a result went stale by an edit and the analysis has not been run again
C29_Witness ==
  /\ isStale
  /\ femResult # Null
  /\ Len(input.supports) = 0
  /\ validation # Null
  /\ Val(validation).ok

\* the loads whose member id is the id of no member
DanglingLoads ==
  { l \in DOMAIN input.distLoads :
      \A k \in DOMAIN input.members : input.members[k].id # input.distLoads[l].memberId }

(***************************************************************************)
(* C30: referential integrity of the distributed loads in the editor.      *)
(* After any sequence of editor operations (toggleDistLoad, delete of      *)
(* selected members or loads, deleteNode, splitMember, the automatic       *)
(* splitting on addPoint and moveNode, mergeNode) the memberId of every    *)
(* distributed load is the id of a member of the member list.              *)
(***************************************************************************)
C30_DistLoadsNameMembers == DanglingLoads = {}
====
